---- MODULE Spec2Model ----
(***************************************************************************)
(* coseq: chains of operators (map, filter, skip, skipUntil) over a        *)
(* caller-supplied pull source, driven one pull at a time through a        *)
(* synchronous or an asynchronous strategy.                                *)
(*                                                                         *)
(* Two generations of the library are modelled:                            *)
(*   - src/unnamed/part_000: coseq(dataIter), strategy chosen by           *)
(*     iterator() / asyncIterator()            (specification Spec);       *)
(*   - src/index.js: syncSequence(dataIter).iterator()                     *)
(*                                             (specification SpecIndex).  *)
(* SpecShared is Spec with two consumers deriving iterators from one       *)
(* chain object, SpecOverlap one asynchronous iterator called again       *)
(* before its previous call has settled, SpecForEach the forEach drain,    *)
(* SpecErr and SpecForEachErr the same with failing sources and failing    *)
(* user functions, SpecAwait chains with awaitValue and delay,             *)
(* SpecPromised the same over a source of promises, SpecSettle             *)
(* asynchronous pulls under fair scheduling of their reactions, SpecArg    *)
(* consumers passing an argument to next, SpecTake the readme's take(n).   *)
(* Spec and SpecIndex are the runs of consumers that only hold iterators;  *)
(* SpecApi adds pull(fn) and ActionIterator.withStrategy to part_000's,    *)
(* SpecIndexApi adds asyncSequence(dataIter), forEach and pull(fn) to      *)
(* index.js's.                                                             *)
(***************************************************************************)
EXTENDS Integers, Sequences, FiniteSets, TLC

VARIABLES
  items,     \* the items the source yields, in order
  srcKind,   \* "generator": function* ending in return "YES!!";
             \* "object": hand-written { next() } that keeps answering
             \*           { value: "YES!!", done: true } once exhausted;
             \* "throwing", "rejecting": function* / async function*
             \*           ending in a throw;
             \* "promising": function* yielding Promise.resolve(item) and
             \*           ending in return "YES!!";
             \* "failing": the same yielding Promise.reject(item)
  pos,       \* number of items the source has yielded so far
  finished,  \* the source has reported completion at least once
  chain,     \* the Action objects after the root, in attachment order
  active,    \* active[k]: SkipUntilAction._active of chain[k]
  count,     \* count[k]: the `count` captured by the closure skip() builds
  strategy,  \* RootAction.strategy: "none", "sync", "async", or "custom"
             \* for a function a consumer supplied; in index.js the root
             \* the chain starts from, syncSequence's or asyncSequence's
  iters,     \* iters[i]: how consumer i obtained its iterator
  each,      \* each[i]: the callback of the ForEachAction consumer i's
             \* forEach(cb) put on top of the chain, "none" without one
  pulls,     \* pulls[i]: the reactions pending for consumer i's pull(fn)
             \* calls, oldest first: "src" holding what the source
             \* answered, "ret" what the pull's promise settles with
  task,      \* task[i]: the promise chain of consumer i's pending pull,
             \* "spin" for a next() that never returns and "stuck" for a
             \* promise nothing will settle
  trace      \* trace[i]: observation log of consumer i's pulls: its calls,
             \* the source reads and user-function calls made for them,
             \* and the results handed back

vars == <<items, srcKind, pos, finished, chain, active, count, strategy,
          iters, each, pulls, task, trace>>

----------------------------------------------------------------------------
(* Bounds *)

MaxLen == 3
MaxStages == 2
MaxSkip == 2
MaxAfterDone == 1
MaxTake == 2
MaxPulls == 2
MaxCustom == 2

----------------------------------------------------------------------------
(* JavaScript values *)

Num(n) == [t |-> "number", n |-> n]
Undefined == [t |-> "undefined", n |-> 0]
NaN == [t |-> "NaN", n |-> 0]
Yes == [t |-> "string", n |-> 0]
True == [t |-> "boolean", n |-> 1]
False == [t |-> "boolean", n |-> 0]
Bool(b) == IF b THEN True ELSE False
IterRef(k) == [t |-> "iterator", n |-> k]
\* Promise.resolve(n), as a source yields it
Promised(n) == [t |-> "promised", n |-> n]
\* Promise.reject(n), as a source yields it
Failing(n) == [t |-> "failing", n |-> n]
\* what a reaction attached to v receives: the number a promise holds,
\* anything else as it is
Awaited(v) == IF v.t = "promised" THEN Num(v.n) ELSE v

\* the string a consumer-supplied strategy answers with
Custom == [t |-> "string", n |-> 1]

\* outcomes of a call that hands no result on: it threw, it returned a
\* promise that rejects, or it left its callback for a later turn
Thrown == [t |-> "thrown", n |-> 0]
Rejected == [t |-> "rejected", n |-> 0]
Deferred == [t |-> "deferred", n |-> 0]

Truthy(v) ==
  CASE v.t = "undefined" -> FALSE
    [] v.t = "NaN" -> FALSE
    [] v.t = "boolean" -> v.n = 1
    [] v.t = "number" -> v.n # 0
    [] OTHER -> TRUE

ItemValues == {1, 2}

----------------------------------------------------------------------------
(* User functions handed to the operators *)

Predicates == {"isEven", "is6"}
Transforms == {"times3"}
\* forEach callbacks: "collect" records its argument and returns undefined
Callbacks == {"collect"}
\* a function that throws when handed 1 and returns its argument otherwise,
\* used as predicate, transform or forEach callback
Throwing == {"throwOn1"}
\* the readme's forEach callback, value => console.log(result.value):
\* `result` is declared nowhere, so that every call throws
ReadmeCallbacks == {"logResult"}

\* value => value % 2 === 0, value => value === 6, value => value * 3
ApplyFn(fn, v) ==
  CASE fn = "isEven" -> Bool(v.t = "number" /\ v.n % 2 = 0)
    [] fn = "is6" -> Bool(v.t = "number" /\ v.n = 6)
    [] fn = "times3" -> IF v.t = "number" THEN Num(v.n * 3) ELSE NaN
    [] fn = "throwOn1" -> IF v = Num(1) THEN Thrown ELSE v
    [] fn = "logResult" -> Thrown
    [] OTHER -> Undefined

----------------------------------------------------------------------------
(* Chain building: Action.map / filter / skip / skipUntil *)

MapAction(transform) == [kind |-> "map", fn |-> transform, n |-> 0]
FilterAction(predicate) == [kind |-> "filter", fn |-> predicate, n |-> 0]
SkipUntilAction(predicate) == [kind |-> "skipUntil", fn |-> predicate, n |-> 0]
ForEachAction(cb) == [kind |-> "forEach", fn |-> cb, n |-> 0]
AwaitValueAction == [kind |-> "awaitValue", fn |-> "none", n |-> 0]
DelayAction == [kind |-> "delay", fn |-> "none", n |-> 0]

\* a skip whose closure lacks the negation
skipNotNegated(n) == [kind |-> "skipUntil", fn |-> "countdown", n |-> n]

\* part_000: skip(count) { return this.skipUntil(() => !(count-- > 0)); }
skip(n) == [kind |-> "skipUntil", fn |-> "notCountdown", n |-> n]

\* index.js: skip(count) { return this.skipUntil(() => count-- > 0); }
Index_skip(n) == [kind |-> "skipUntil", fn |-> "countdown", n |-> n]

StatelessStages ==
  {MapAction(f) : f \in Transforms} \cup {FilterAction(p) : p \in Predicates}
    \cup {SkipUntilAction(p) : p \in Predicates}

Stages == StatelessStages \cup {skip(n) : n \in 0..MaxSkip}
Index_Stages == StatelessStages \cup {Index_skip(n) : n \in 0..MaxSkip}
ThrowingStages ==
  {MapAction(f) : f \in Throwing} \cup {FilterAction(f) : f \in Throwing}
    \cup {SkipUntilAction(f) : f \in Throwing}
DeferringStages == {AwaitValueAction, DelayAction}

SeqsUpTo(S, n) == UNION {[1..k -> S] : k \in 0..n}

----------------------------------------------------------------------------
(* The mutable part of the state, threaded through one handler *)

Mem == [pos |-> pos, finished |-> finished, active |-> active,
        count |-> count, each |-> each, pulls |-> pulls, trace |-> trace]

\* the actions behind the root of the sequence consumer i runs, as
\* buildActionSequence walks them: the chain, and on top of it the
\* ForEachAction forEach(cb) created for that consumer alone
chainOf(m, i) ==
  IF m.each[i] = "none" THEN chain ELSE Append(chain, ForEachAction(m.each[i]))

\* observation log entries: "call" (a consumer calls next), "src" (a call
\* of dataIter.next: v its argument, d the done it answered), "fn" (a user
\* function of chain[k]: v its argument, d what it returned), "ret" (the
\* result handed to the consumer: v its value, d its done) and "settle"
\* (a promise fulfilling that no await is attached to)
Event(i, ev, k, v, d) == [it |-> i, ev |-> ev, k |-> k, v |-> v, d |-> d]
Log(m, e) == [m EXCEPT !.trace[e.it] = Append(@, e)]

\* dataIter.next(value).  A "throwing" source is a generator whose body
\* throws once its items are yielded, a "rejecting" one an async generator
\* doing the same, so that its next() returns a promise that rejects;
\* either is finished afterwards.  The log keeps the failure in place of
\* the done flag.
dataIterNext(m, i, arg) ==
  LET res == IF m.pos < Len(items)
               THEN [value |-> IF srcKind = "promising"
                                 THEN Promised(items[m.pos + 1])
                               ELSE IF srcKind = "failing"
                                 THEN Failing(items[m.pos + 1])
                               ELSE Num(items[m.pos + 1]),
                     done |-> False]
             ELSE IF srcKind = "throwing" /\ ~m.finished
               THEN [value |-> Thrown, done |-> Undefined]
             ELSE IF srcKind = "rejecting" /\ ~m.finished
               THEN [value |-> Rejected, done |-> Undefined]
             ELSE IF srcKind # "object" /\ m.finished
               THEN [value |-> Undefined, done |-> True]
             ELSE [value |-> Yes, done |-> True]
      m1 == IF m.pos < Len(items)
              THEN [m EXCEPT !.pos = @ + 1]
              ELSE [m EXCEPT !.finished = TRUE]
  IN [m |-> Log(m1, Event(i, "src", 0, arg,
                          IF res.value \in {Thrown, Rejected}
                            THEN res.value ELSE res.done)),
      result |-> res]

----------------------------------------------------------------------------
(* The operators' per-item behaviour: Action.exec of each class.  Each     *)
(* returns the object it hands to its `done` callback.                      *)

\* this.fn(value): the user function of chain[k], logged; the closures
\* skip() builds also decrement their captured count
CallFn(m, i, k, value) ==
  LET fn == chainOf(m, i)[k].fn
      ret == CASE fn = "notCountdown" -> Bool(~(m.count[k] > 0))
               [] fn = "countdown" -> Bool(m.count[k] > 0)
               [] OTHER -> ApplyFn(fn, value)
      m1 == IF fn \in {"notCountdown", "countdown"}
              THEN [m EXCEPT !.count[k] = @ - 1]
              ELSE m
  IN [m |-> Log(m1, Event(i, "fn", k, value, ret)), ret |-> ret]

\* a map that evaluates its transform a second time
MapExecTwice(m, i, k, value) ==
  LET c == CallFn(m, i, k, value)
      c2 == CallFn(c.m, i, k, value)
  IN [m |-> c2.m,
      result |-> [skip |-> Undefined, value |-> c2.ret, done |-> Undefined]]

\* MapAction.exec: done({ value: this.fn(value) })
MapExec(m, i, k, value) ==
  LET c == CallFn(m, i, k, value)
  IN [m |-> c.m,
      result |-> [skip |-> Undefined, value |-> c.ret, done |-> Undefined]]

\* a filter that forgets the negation: skip: this.fn(value)
FilterExecInverted(m, i, k, value) ==
  LET c == CallFn(m, i, k, value)
  IN [m |-> c.m,
      result |-> [skip |-> Bool(Truthy(c.ret)), value |-> value,
                  done |-> Undefined]]

\* what an exec whose user function threw leaves: done is never called
ThrowOut == [skip |-> Undefined, value |-> Thrown, done |-> Undefined]

\* FilterAction.exec: done({ skip: !this.fn(value), value: value })
FilterExec(m, i, k, value) ==
  LET c == CallFn(m, i, k, value)
  IN IF c.ret = Thrown
       THEN [m |-> c.m, result |-> ThrowOut]
       ELSE [m |-> c.m,
             result |-> [skip |-> Bool(~Truthy(c.ret)), value |-> value,
                         done |-> Undefined]]

\* a skipUntil that never clears _active
SkipUntilExecStuck(m, i, k, value) ==
  LET c == CallFn(m, i, k, value)
  IN IF Truthy(c.ret)
       THEN [m |-> c.m,
             result |-> [skip |-> Undefined, value |-> value, done |-> Undefined]]
       ELSE [m |-> c.m,
             result |-> [skip |-> True, value |-> Undefined, done |-> Undefined]]

\* SkipUntilAction.exec
SkipUntilExec(m, i, k, value) ==
  IF m.active[k]
    THEN LET c == CallFn(m, i, k, value)
         IN IF c.ret = Thrown
              THEN [m |-> c.m, result |-> ThrowOut]
            ELSE IF ~Truthy(c.ret)
              THEN [m |-> c.m,
                    result |-> [skip |-> True, value |-> Undefined,
                                done |-> Undefined]]
              ELSE [m |-> [c.m EXCEPT !.active[k] = FALSE],
                    result |-> [skip |-> Undefined, value |-> value,
                                done |-> Undefined]]
    ELSE [m |-> [m EXCEPT !.active[k] = FALSE],
          result |-> [skip |-> Undefined, value |-> value, done |-> Undefined]]

\* a forEach stage that hands on without calling its callback
ForEachExecSilent(m, i, k, value) ==
  [m |-> m,
   result |-> [skip |-> Undefined, value |-> Undefined, done |-> Undefined]]

\* ForEachAction.exec: this.fn(value); done({})
ForEachExec(m, i, k, value) ==
  LET c == CallFn(m, i, k, value)
  IN IF c.ret = Thrown
       THEN [m |-> c.m, result |-> ThrowOut]
       ELSE [m |-> c.m,
             result |-> [skip |-> Undefined, value |-> Undefined,
                         done |-> Undefined]]

\* AwaitValueAction.exec: Promise.resolve(value).then(value => done({ value }))
\* returns without having called done
AwaitValueExec(m, i, k, value) ==
  [m |-> m,
   result |-> [skip |-> Undefined, value |-> Deferred, done |-> Undefined]]

\* DelayAction.exec: setTimeout(() => done({ value }), this._timeout)
\* returns without having called done
DelayExec(m, i, k, value) ==
  [m |-> m,
   result |-> [skip |-> Undefined, value |-> Deferred, done |-> Undefined]]

exec(m, i, k, value) ==
  CASE chainOf(m, i)[k].kind = "map" -> MapExec(m, i, k, value)
    [] chainOf(m, i)[k].kind = "filter" -> FilterExec(m, i, k, value)
    [] chainOf(m, i)[k].kind = "skipUntil" -> SkipUntilExec(m, i, k, value)
    [] chainOf(m, i)[k].kind = "forEach" -> ForEachExec(m, i, k, value)
    [] chainOf(m, i)[k].kind = "awaitValue" -> AwaitValueExec(m, i, k, value)
    [] chainOf(m, i)[k].kind = "delay" -> DelayExec(m, i, k, value)

----------------------------------------------------------------------------
(* buildActionSequence / createNext (part_000)                             *)

\* a build in which the root is followed by the second action
IterAfterSecond(m, i, k) ==
  IF k = 0 /\ Len(chainOf(m, i)) >= 2 THEN IterRef(2)
  ELSE IF k < Len(chainOf(m, i)) THEN IterRef(k + 1) ELSE Undefined

\* the `iter` createNext(action, iter) closes over: the ActionIterator of
\* the action attached after position k (0 is the root), undefined for the
\* last one
IterAfter(m, i, k) ==
  IF k < Len(chainOf(m, i)) THEN IterRef(k + 1) ELSE Undefined

\* a doneCallback that ignores result.skip
doneCallbackNoSkip(m, i, k, result) ==
  [done |-> Bool(Truthy(result.done)), iter |-> IterAfter(m, i, k),
   value |-> result.value]

\* doneCallback: { done: !!result.done, iter: result.skip ? root : iter,
\*                 value: result.value }
doneCallback(m, i, k, result) ==
  [done |-> Bool(Truthy(result.done)),
   iter |-> IF Truthy(result.skip) THEN IterRef(0) ELSE IterAfter(m, i, k),
   value |-> result.value]

\* what the caller of next holds when doneCallback has not been called,
\* v telling why (Thrown, Rejected or Deferred)
NoResult(v) == [done |-> Undefined, iter |-> Undefined, value |-> v]
HasResult(result) == result.value \notin {Thrown, Rejected, Deferred}

\* e is what chain[k]'s exec yields: its call of done runs doneCallback
callDone(e, i, k) ==
  IF HasResult(e.result)
    THEN [m |-> e.m, result |-> doneCallback(e.m, i, k, e.result)]
    ELSE [m |-> e.m, result |-> NoResult(e.result.value)]

\* next(value, queueResult) of the ActionIterator of chain[k], k >= 1: the
\* object queueResult receives
stageNext(m, i, k, value) == callDone(exec(m, i, k, value), i, k)

\* an init that hands a completion on without the source's value
readAndInitNoValue(m, i, value) ==
  LET r == dataIterNext(m, i, value)
  IN [m |-> r.m,
      result |-> doneCallback(r.m, i, 0, [skip |-> Undefined,
                                  value |-> IF Truthy(r.result.done)
                                              THEN Undefined
                                              ELSE r.result.value,
                                  done |-> r.result.done])]

\* a strategy that reads the source a second time and hands on the
\* second answer
readAndInitTwice(m, i, value) ==
  LET r == dataIterNext(dataIterNext(m, i, value).m, i, value)
  IN IF r.result.value = Thrown
       THEN [m |-> r.m, result |-> NoResult(Thrown)]
       ELSE [m |-> r.m,
             result |-> doneCallback(r.m, i, 0, [skip |-> Undefined,
                                         value |-> r.result.value,
                                         done |-> r.result.done])]

\* what both strategies do first: dataIter.next(value), and the object
\* init(result) hands on
readAndInit(m, i, value) ==
  LET r == dataIterNext(m, i, value)
  IN IF r.result.value = Thrown
       THEN [m |-> r.m, result |-> NoResult(Thrown)]
       ELSE [m |-> r.m,
             result |-> doneCallback(r.m, i, 0, [skip |-> Undefined,
                                         value |-> r.result.value,
                                         done |-> r.result.done])]

----------------------------------------------------------------------------
(* syncSequence (part_000)                                                 *)

\* one turn of pushValue's loop: result.iter.next(result.value, cb), where
\* cb assigns the new result.  For the root iterator this re-enters
\* syncSequence, whose init(result) is cb and whose inner pushValue gets
\* undefined and returns at once.
iterNext(m, i, result) ==
  IF result.iter.n = 0
    THEN readAndInit(m, i, result.value)
    ELSE stageNext(m, i, result.iter.n, result.value)

\* the while loop of pushValue.  A throw leaves the loop; a stage that
\* has not called the callback when its next returns leaves `result` as it
\* was, so that the loop repeats the same call without end: Deferred is
\* handed back to stand for the call that never returns.
RECURSIVE pushValue(_, _, _)

\* after one turn, r being what iterNext yields
nextTurn(r, i) ==
  IF HasResult(r.result) THEN pushValue(r.m, i, r.result) ELSE r

pushValue(m, i, result) ==
  IF Truthy(result.iter) /\ ~Truthy(result.done)
    THEN nextTurn(iterNext(m, i, result), i)
    ELSE [m |-> m, result |-> result]

\* syncSequence(dataIter, value, init) as called by the consumer's next():
\* result.done ? init(result) : pushValue(init(result))
syncSequence(m, i, value) ==
  LET r == readAndInit(m, i, value)
  IN IF Truthy(r.result.done) THEN r ELSE pushValue(r.m, i, r.result)

----------------------------------------------------------------------------
(* Call nesting of a synchronous pull (part_000).  A depth is the number   *)
(* of frames above the consumer's own: the consumer's next() runs at 1.    *)

Max(a, b) == IF a > b THEN a ELSE b

\* deepest frame one turn of pushValue's loop reaches, pushValue running
\* at depth `frame`.  A stage: next, action.exec, doneCallback (or the
\* user function), queueResult.  The root: next, RootAction.exec,
\* syncSequence, init = doneCallback (or dataIter.next), queueResult; the
\* inner pushValue(undefined) runs one frame below that and returns.
iterNextDepth(result, frame) ==
  IF result.iter.n = 0 THEN frame + 5 ELSE frame + 4

RECURSIVE pushValueDepth(_, _, _, _)

\* a pushValue that handles the next result in a nested call instead of
\* the next turn of its loop
pushValueDepthNested(m, i, result, frame) ==
  IF Truthy(result.iter) /\ ~Truthy(result.done)
    THEN LET r == iterNext(m, i, result)
         IN Max(iterNextDepth(result, frame),
                pushValueDepth(r.m, i, r.result, frame + 1))
    ELSE frame

\* deepest frame reached by pushValue(result) running at depth `frame`:
\* every turn of the while loop starts again from pushValue's own frame
pushValueDepth(m, i, result, frame) ==
  IF Truthy(result.iter) /\ ~Truthy(result.done)
    THEN LET r == iterNext(m, i, result)
         IN Max(iterNextDepth(result, frame),
                pushValueDepth(r.m, i, r.result, frame))
    ELSE frame

\* deepest frame reached by syncSequence running at depth `frame`:
\* dataIter.next at frame + 1, init(result) = doneCallback at frame + 1
\* calling queueResult at frame + 2, pushValue at frame + 1
syncSequenceDepth(m, i, value, frame) ==
  LET r == readAndInit(m, i, value)
  IN IF Truthy(r.result.done)
       THEN frame + 2
       ELSE Max(frame + 2, pushValueDepth(r.m, i, r.result, frame + 1))

\* the consumer's next() at 1, RootAction.exec at 2, syncSequence at 3
nextDepth(i) == syncSequenceDepth(Mem, i, Undefined, 3)

----------------------------------------------------------------------------
(* asyncSequence (part_000): one pending pull per consumer, advanced one   *)
(* promise reaction at a time                                               *)

Idle == [st |-> "idle", r |-> [done |-> Undefined, iter |-> Undefined,
                               value |-> Undefined]]
Pending(st, r) == [st |-> st, r |-> r]
SourceResult(res) == [done |-> res.done, iter |-> Undefined, value |-> res.value]
PromiseObject == [t |-> "promise", n |-> 0]
\* what the consumer-supplied strategy returns
CustomResult == [done |-> False, iter |-> Undefined, value |-> Custom]

\* number of completion results consumer i has been handed
DoneCount(i) ==
  Cardinality({j \in 1..Len(trace[i]) :
                 /\ trace[i][j].ev \in {"ret", "settle"}
                 /\ trace[i][j].d = True})

Commit(m) ==
  /\ pos' = m.pos
  /\ finished' = m.finished
  /\ active' = m.active
  /\ count' = m.count
  /\ each' = m.each
  /\ pulls' = m.pulls
  /\ trace' = m.trace

\* the promise of consumer i's pull fulfils with result r: it is handed to
\* the awaiting consumer, or to the reaction forEach attached to it
Settle(m, i, r) ==
  /\ task' = [task EXCEPT ![i] = IF iters[i] = "forEach"
                                   THEN Pending("each", r) ELSE Idle]
  /\ Commit(Log(m, Event(i, IF iters[i] \in {"async", "forEach"}
                             THEN "ret" ELSE "settle",
                         0, r.value, r.done)))

\* the promise of consumer i's pull rejects.  The consumer awaiting it
\* gets the error; the reaction forEach attached has no rejection handler
\* and the promise it derives is kept by nobody, so that forEach's own
\* promise is settled by no one from then on.
Reject(m, i) ==
  IF iters[i] = "forEach"
    THEN /\ task' = [task EXCEPT ![i] = Pending("stuck", NoResult(Thrown))]
         /\ Commit(m)
    ELSE /\ task' = [task EXCEPT ![i] = Idle]
         /\ Commit(Log(m, Event(i, IF iters[i] = "async"
                                    THEN "reject" ELSE "unhandled",
                                0, Thrown, Undefined)))

\* RootAction.exec(value, done) reached from pushValue's
\* result.iter.next(result.value, resolve): this.strategy(dataIter, value, done).
\* A throw inside the executor of pushValue's promise rejects it.  A
\* consumer-supplied strategy returns without calling done: resolve is
\* never run.
RootExecInner(m, i, value) ==
  IF strategy = "custom"
    THEN /\ task' = [task EXCEPT ![i] = Pending("stuck", NoResult(Deferred))]
         /\ Commit(m)
  ELSE IF strategy = "async"
    THEN LET rd == dataIterNext(m, i, value)
         IN IF rd.result.value = Thrown
              THEN Reject(rd.m, i)
              ELSE /\ task' = [task EXCEPT ![i] =
                                 Pending("srcInner", SourceResult(rd.result))]
                   /\ Commit(rd.m)
    ELSE LET x == readAndInit(m, i, value)
         IN IF x.result.value = Thrown
              THEN Reject(x.m, i)
              ELSE /\ task' = [task EXCEPT ![i] = Pending("res", x.result)]
                   /\ Commit(x.m)

\* asyncSequence's pushValue(result)
asyncPushValue(m, i, r) ==
  IF ~Truthy(r.iter)
    THEN Settle(m, i, r)
    ELSE IF r.iter.n = 0
      THEN RootExecInner(m, i, r.value)
      ELSE \E x \in {stageNext(m, i, r.iter.n, r.value)} :
              IF x.result.value = Thrown
                THEN Reject(x.m, i)
              ELSE IF x.result.value = Deferred
                THEN /\ task' = [task EXCEPT ![i] = Pending("await", r)]
                     /\ Commit(x.m)
              ELSE /\ task' = [task EXCEPT ![i] = Pending("res", x.result)]
                   /\ Commit(x.m)

----------------------------------------------------------------------------
(* Actions (part_000) *)

\* an iterator() that fetches the first item ahead of the first pull
iteratorPrefetch(i) ==
  /\ iters[i] = "none"
  /\ iters' = [iters EXCEPT ![i] = "sync"]
  /\ strategy' = "sync"
  /\ pos' = IF pos < Len(items) THEN pos + 1 ELSE pos
  /\ UNCHANGED <<items, srcKind, finished, chain, active, count, each, pulls, task, trace>>

\* iterator(): buildActionSequence(this).withStrategy(syncSequence)
iterator(i) ==
  /\ iters[i] = "none"
  /\ iters' = [iters EXCEPT ![i] = "sync"]
  /\ strategy' = "sync"
  /\ UNCHANGED <<items, srcKind, pos, finished, chain, active, count, each, pulls, task, trace>>

\* asyncIterator(): buildActionSequence(this).withStrategy(asyncSequence)
asyncIterator(i) ==
  /\ iters[i] = "none"
  /\ iters' = [iters EXCEPT ![i] = "async"]
  /\ strategy' = "async"
  /\ UNCHANGED <<items, srcKind, pos, finished, chain, active, count, each, pulls, task, trace>>

\* a consumer pulls once it holds an iterator and awaits each result before
\* the next call; MaxAfterDone bounds the pulls made after completion
CanPull(i) ==
  /\ iters[i] # "none"
  /\ task[i].st = "idle"
  /\ DoneCount(i) <= MaxAfterDone

\* how a synchronous next() ends, r being what syncSequence yields
nextReturns(r, i) ==
  IF r.result.value = Deferred
    THEN /\ task' = [task EXCEPT ![i] = Pending("spin", r.result)]
         /\ Commit(r.m)
  ELSE IF r.result.value = Thrown
    THEN /\ task' = task
         /\ Commit(Log(r.m, Event(i, "throw", 0, Thrown, Undefined)))
  ELSE /\ task' = task
       /\ Commit(Log(r.m, Event(i, "ret", 0, r.result.value, r.result.done)))

\* consumer i calls next(value) while the root's strategy is
\* syncSequence: the call returns a result, throws, or never returns
SyncNextWith(i, value) ==
  /\ CanPull(i)
  /\ strategy = "sync"
  /\ nextReturns(syncSequence(Log(Mem, Event(i, "call", 0, value, Undefined)),
                              i, value), i)
  /\ UNCHANGED <<items, srcKind, chain, strategy, iters>>

\* next() without an argument
SyncNext(i) == SyncNextWith(i, Undefined)

\* consumer i calls next(value) while the root's strategy is
\* asyncSequence: Promise.resolve(dataIter.next(value)).then(...)
AsyncNextWith(i, value) ==
  /\ CanPull(i)
  /\ strategy = "async"
  /\ LET rd == dataIterNext(Log(Mem, Event(i, "call", 0, value, Undefined)),
                            i, value)
     IN IF rd.result.value = Thrown
          THEN /\ task' = task
               /\ Commit(Log(rd.m, Event(i, "throw", 0, Thrown, Undefined)))
          ELSE /\ task' = [task EXCEPT ![i] =
                             Pending("src", SourceResult(rd.result))]
               /\ Commit(IF iters[i] = "sync"
                           THEN Log(rd.m, Event(i, "ret", 0, PromiseObject,
                                                Undefined))
                           ELSE rd.m)
  /\ UNCHANGED <<items, srcKind, chain, strategy, iters>>

\* next() without an argument
AsyncNext(i) == AsyncNextWith(i, Undefined)

\* .then((result) => result.done ? init(result) : pushValue(init(result)))
\* of the consumer's own call (queueResult is the identity)
ThenSource(i) ==
  /\ task[i].st = "src"
  /\ LET w == doneCallback(Mem, i, 0, [skip |-> Undefined, value |-> task[i].r.value,
                               done |-> task[i].r.done])
     IN IF task[i].r.value = Rejected THEN Reject(Mem, i)
        ELSE IF Truthy(task[i].r.done) THEN Settle(Mem, i, w)
        ELSE asyncPushValue(Mem, i, w)
  /\ UNCHANGED <<items, srcKind, chain, strategy, iters>>

\* the same reaction for a re-read after a skip: init is the doneCallback
\* whose queueResult is pushValue's resolve; pushValue(undefined) returns.
\* next(value, resolve) drops the promise asyncSequence returns: when the
\* source's promise rejects, the reaction is not run, resolve is never
\* called and the pull's promise stays pending.
ThenInner(i) ==
  /\ task[i].st = "srcInner"
  /\ LET w == doneCallback(Mem, i, 0, [skip |-> Undefined, value |-> task[i].r.value,
                               done |-> task[i].r.done])
     IN IF task[i].r.value = Rejected
          THEN task' = [task EXCEPT ![i] = Pending("stuck", NoResult(Rejected))]
          ELSE task' = [task EXCEPT ![i] = Pending("res", w)]
  /\ UNCHANGED <<items, srcKind, pos, finished, chain, active, count, strategy,
                 iters, each, pulls, trace>>

\* a reaction that hands every result over without pushing it on
ThenResultEarly(i) ==
  /\ task[i].st = "res"
  /\ Settle(Mem, i, task[i].r)
  /\ UNCHANGED <<items, srcKind, chain, strategy, iters>>

\* .then(result => result.done ? result : pushValue(result))
ThenResult(i) ==
  /\ task[i].st = "res"
  /\ IF Truthy(task[i].r.done)
       THEN Settle(Mem, i, task[i].r)
       ELSE asyncPushValue(Mem, i, task[i].r)
  /\ UNCHANGED <<items, srcKind, chain, strategy, iters>>

\* a reaction of awaitValue that hands on what exec was given
ThenAwaitUnresolved(i) ==
  /\ task[i].st = "await"
  /\ LET k == task[i].r.iter.n
         v == task[i].r.value
     IN /\ task' = [task EXCEPT ![i] =
                      Pending("res", doneCallback(Mem, i, k, [skip |-> Undefined,
                                                      value |-> v,
                                                      done |-> Undefined]))]
        /\ Commit(Log(Mem, Event(i, "then", k, task[i].r.value, v)))
  /\ UNCHANGED <<items, srcKind, chain, strategy, iters>>

\* the callback awaitValue or delay left behind runs: done({ value })
\* through doneCallback to pushValue's resolve.  awaitValue's is the
\* reaction to Promise.resolve(value) and receives what value resolves
\* to; delay's is a timer callback holding the value exec was given.
\* Logged as "then": v what exec was given, d what done receives.
\* When the value awaitValue was given is a promise that rejects, the
\* reaction is skipped and the promise then() derived is kept by nobody:
\* done is never called and the pull's promise stays pending.
ThenAwait(i) ==
  /\ task[i].st = "await"
  /\ LET k == task[i].r.iter.n
         v == IF chainOf(Mem, i)[k].kind = "awaitValue"
                THEN Awaited(task[i].r.value) ELSE task[i].r.value
     IN IF chainOf(Mem, i)[k].kind = "awaitValue" /\ task[i].r.value.t = "failing"
          THEN /\ task' = [task EXCEPT ![i] =
                             Pending("stuck", NoResult(Rejected))]
               /\ Commit(Mem)
          ELSE /\ task' = [task EXCEPT ![i] =
                             Pending("res", doneCallback(Mem, i, k, [skip |-> Undefined,
                                                             value |-> v,
                                                             done |-> Undefined]))]
               /\ Commit(Log(Mem, Event(i, "then", k, task[i].r.value, v)))
  /\ UNCHANGED <<items, srcKind, chain, strategy, iters>>

\* _active exists on SkipUntilAction only (set true by its constructor);
\* for the other stages the slot is unused and kept FALSE
InitChain(c) ==
  /\ chain = c
  /\ active = [k \in 1..Len(c) |-> c[k].kind = "skipUntil"]
  /\ count = [k \in 1..Len(c) |-> c[k].n]

InitSource ==
  /\ items \in SeqsUpTo(ItemValues, MaxLen)
  /\ srcKind \in {"generator", "object"}
  /\ pos = 0
  /\ finished = FALSE

\* the state after the chain object has been built, before any consumer
\* has asked it for an iterator
InitConsumers(n) ==
  /\ strategy = "none"
  /\ iters = [i \in 1..n |-> "none"]
  /\ each = [i \in 1..n |-> "none"]
  /\ pulls = [i \in 1..n |-> <<>>]
  /\ task = [i \in 1..n |-> Idle]
  /\ trace = [i \in 1..n |-> <<>>]

\* one consumer of one chain
Init ==
  /\ InitSource
  /\ \E c \in SeqsUpTo(Stages, MaxStages) : InitChain(c)
  /\ InitConsumers(1)

\* two consumers asking the same chain object for an iterator each
InitShared ==
  /\ InitSource
  /\ srcKind = "generator"
  /\ \E c \in SeqsUpTo(Stages, 1) : InitChain(c)
  /\ InitConsumers(2)

Next ==
  \/ \E i \in DOMAIN iters : iterator(i)
  \/ \E i \in DOMAIN iters : asyncIterator(i)
  \/ \E i \in DOMAIN iters : SyncNext(i)
  \/ \E i \in DOMAIN iters : AsyncNext(i)
  \/ \E i \in DOMAIN iters : ThenSource(i)
  \/ \E i \in DOMAIN iters : ThenInner(i)
  \/ \E i \in DOMAIN iters : ThenResult(i)

Spec == Init /\ [][Next]_vars
SpecShared == InitShared /\ [][Next]_vars

----------------------------------------------------------------------------
(* forEach (part_000) *)

\* root.next() as iterateSequence calls it: RootAction.exec runs the
\* strategy in force; Promise.resolve(...) wraps what it returns
\* root.next() threw.  Inside the executor of forEach's promise that
\* rejects the promise; inside the reaction to a previous pull it rejects
\* a promise nobody keeps.
rootNextThrew(m, i, inExecutor) ==
  IF inExecutor
    THEN /\ task' = [task EXCEPT ![i] = Idle]
         /\ Commit(Log(m, Event(i, "reject", 0, Thrown, Undefined)))
    ELSE /\ task' = [task EXCEPT ![i] = Pending("stuck", NoResult(Thrown))]
         /\ Commit(m)

\* root.next() under syncSequence returned, threw or never returns; x is
\* what syncSequence yields
rootNextSync(x, i, inExecutor) ==
  IF x.result.value = Thrown
    THEN rootNextThrew(x.m, i, inExecutor)
  ELSE IF x.result.value = Deferred
    THEN /\ task' = [task EXCEPT ![i] = Pending("spin", x.result)]
         /\ Commit(x.m)
  ELSE /\ task' = [task EXCEPT ![i] = Pending("each", x.result)]
       /\ Commit(Log(x.m, Event(i, "ret", 0, x.result.value, x.result.done)))

rootNext(m, i, strat, inExecutor) ==
  LET m0 == Log(m, Event(i, "call", 0, Undefined, Undefined))
  IN IF strat = "custom"
       THEN /\ task' = [task EXCEPT ![i] = Pending("each", CustomResult)]
            /\ Commit(Log(m0, Event(i, "ret", 0, Custom, False)))
     ELSE IF strat = "async"
       THEN LET rd == dataIterNext(m0, i, Undefined)
            IN IF rd.result.value = Thrown
                 THEN rootNextThrew(rd.m, i, inExecutor)
                 ELSE /\ task' = [task EXCEPT ![i] =
                                    Pending("src", SourceResult(rd.result))]
                      /\ Commit(rd.m)
       ELSE rootNextSync(syncSequence(m0, i, Undefined), i, inExecutor)

\* forEach(cb): buildActionSequence(new ForEachAction(this, cb))
\* .withStrategy(asyncSequence), then the first iterateSequence(sequence)
\* inside the Promise executor.  The ForEachAction is a node of its own
\* on top of the chain: the chain, and the iterators others derive from
\* it, do not contain it.
forEachWith(i, cbs) ==
  /\ iters[i] = "none"
  /\ iters' = [iters EXCEPT ![i] = "forEach"]
  /\ strategy' = "async"
  /\ \E cb \in cbs : rootNext([Mem EXCEPT !.each[i] = cb], i, "async", TRUE)
  /\ UNCHANGED <<items, srcKind, chain>>

forEach(i) == forEachWith(i, Callbacks)

\* forEach(cb) with a callback that may throw
forEachThrowing(i) == forEachWith(i, Throwing)

\* forEach(cb) as the readme calls it
forEachReadme(i) == forEachWith(i, ReadmeCallbacks)

\* .then((result) => result.done ? resolve(result) : iterateSequence(root))
iterateSequence(i) ==
  /\ task[i].st = "each"
  /\ IF Truthy(task[i].r.done)
       THEN /\ task' = [task EXCEPT ![i] = Idle]
            /\ Commit(Log(Mem, Event(i, "resolve", 0, task[i].r.value,
                                     task[i].r.done)))
       ELSE rootNext(Mem, i, strategy, FALSE)
  /\ UNCHANGED <<items, srcKind, chain, strategy, iters>>

NextForEach ==
  \/ \E i \in DOMAIN iters : forEach(i)
  \/ \E i \in DOMAIN iters : ThenSource(i)
  \/ \E i \in DOMAIN iters : ThenInner(i)
  \/ \E i \in DOMAIN iters : ThenResult(i)
  \/ \E i \in DOMAIN iters : iterateSequence(i)

\* the promise reactions forEach schedules are run by the microtask queue
\* until none is left
Reactions ==
  \E i \in DOMAIN iters :
    ThenSource(i) \/ ThenInner(i) \/ ThenResult(i) \/ iterateSequence(i)

\* the chains forEach is called on
ForEachStages ==
  {MapAction("times3"), FilterAction("isEven"), SkipUntilAction("isEven"),
   skip(MaxSkip)}

InitForEach ==
  /\ InitSource
  /\ \E c \in SeqsUpTo(ForEachStages, MaxStages) : InitChain(c)
  /\ InitConsumers(1)

SpecForEach == InitForEach /\ [][NextForEach]_vars /\ WF_vars(Reactions)

----------------------------------------------------------------------------
(* Failing sources and failing user functions *)

InitErr ==
  /\ items \in SeqsUpTo(ItemValues, MaxLen)
  /\ srcKind \in {"generator", "throwing", "rejecting"}
  /\ pos = 0
  /\ finished = FALSE
  /\ \E c \in SeqsUpTo(Stages \cup ThrowingStages, MaxStages) : InitChain(c)
  /\ InitConsumers(1)

\* an asynchronous source is consumed through asyncIterator()
NextErr ==
  \/ \E i \in DOMAIN iters : srcKind # "rejecting" /\ iterator(i)
  \/ \E i \in DOMAIN iters : asyncIterator(i)
  \/ \E i \in DOMAIN iters : SyncNext(i)
  \/ \E i \in DOMAIN iters : AsyncNext(i)
  \/ \E i \in DOMAIN iters : ThenSource(i)
  \/ \E i \in DOMAIN iters : ThenInner(i)
  \/ \E i \in DOMAIN iters : ThenResult(i)

SpecErr == InitErr /\ [][NextErr]_vars

NextForEachErr ==
  \/ \E i \in DOMAIN iters : forEach(i)
  \/ \E i \in DOMAIN iters : forEachThrowing(i)
  \/ \E i \in DOMAIN iters : forEachReadme(i)
  \/ \E i \in DOMAIN iters : ThenSource(i)
  \/ \E i \in DOMAIN iters : ThenInner(i)
  \/ \E i \in DOMAIN iters : ThenResult(i)
  \/ \E i \in DOMAIN iters : iterateSequence(i)

SpecForEachErr == InitErr /\ [][NextForEachErr]_vars

----------------------------------------------------------------------------
(* Chains with awaitValue and delay *)

InitAwait ==
  /\ InitSource
  /\ \E c \in SeqsUpTo(Stages \cup DeferringStages, MaxStages) : InitChain(c)
  /\ InitConsumers(1)

NextAwait ==
  \/ \E i \in DOMAIN iters : iterator(i)
  \/ \E i \in DOMAIN iters : asyncIterator(i)
  \/ \E i \in DOMAIN iters : SyncNext(i)
  \/ \E i \in DOMAIN iters : AsyncNext(i)
  \/ \E i \in DOMAIN iters : ThenSource(i)
  \/ \E i \in DOMAIN iters : ThenInner(i)
  \/ \E i \in DOMAIN iters : ThenResult(i)
  \/ \E i \in DOMAIN iters : ThenAwait(i)

SpecAwait == InitAwait /\ [][NextAwait]_vars

\* the same chains over a source whose items are promises
InitPromised ==
  /\ items \in SeqsUpTo(ItemValues, MaxLen)
  /\ srcKind = "promising"
  /\ pos = 0
  /\ finished = FALSE
  /\ \E c \in SeqsUpTo(Stages \cup DeferringStages, MaxStages) : InitChain(c)
  /\ InitConsumers(1)

SpecPromised == InitPromised /\ [][NextAwait]_vars

----------------------------------------------------------------------------
(* Asynchronous pulls whose every promise settles and whose every timer    *)
(* fires                                                                    *)

SettlingStages ==
  {AwaitValueAction, DelayAction, FilterAction("isEven"), MapAction("times3")}

\* a source of numbers, of promises that fulfil or of promises that reject
InitSettle ==
  /\ items \in SeqsUpTo(ItemValues, MaxLen)
  /\ srcKind \in {"generator", "promising", "failing"}
  /\ pos = 0
  /\ finished = FALSE
  /\ \E c \in SeqsUpTo(SettlingStages, MaxStages) : InitChain(c)
  /\ InitConsumers(1)

NextSettle ==
  \/ \E i \in DOMAIN iters : asyncIterator(i)
  \/ \E i \in DOMAIN iters : AsyncNext(i)
  \/ \E i \in DOMAIN iters : ThenSource(i)
  \/ \E i \in DOMAIN iters : ThenInner(i)
  \/ \E i \in DOMAIN iters : ThenResult(i)
  \/ \E i \in DOMAIN iters : ThenAwait(i)

\* the microtask queue runs every reaction of a settled promise, and
\* every timer fires
Settling ==
  \E i \in DOMAIN iters :
    ThenSource(i) \/ ThenInner(i) \/ ThenResult(i) \/ ThenAwait(i)

SpecSettle == InitSettle /\ [][NextSettle]_vars /\ WF_vars(Settling)

----------------------------------------------------------------------------
(* Action.pull and ActionIterator.withStrategy *)

\* the function handed to pull: result => result
PullCallbacks == {"echo"}

PullCount(i) ==
  Cardinality({j \in 1..Len(trace[i]) : trace[i][j].ev = "pull"})

\* init(result) as pull reaches it.  On the root alone init is the
\* function handed to pull, called with the source's result (logged as
\* "pullfn") and answering it back ("pullret"); on a chain with stages
\* init is the ActionIterator pull wrapped around the first stage, which
\* is no function: TypeError ("throw" from a call, "reject" from a
\* reaction).
pullInit(m, i, result, failure) ==
  IF chain = <<>>
    THEN Log(Log(m, Event(i, "pullfn", 0, result.value, result.done)),
             Event(i, "pullret", 0, result.value, result.done))
    ELSE Log(m, Event(i, failure, 0, Thrown, Undefined))

\* pull under syncSequence, rd being what dataIter.next(undefined) yields:
\* result.done ? init(result) : pushValue(init(result)), where pushValue
\* returns what init answered, an object without iter
pullSync(rd, i) ==
  IF rd.result.value = Thrown
    THEN Commit(Log(rd.m, Event(i, "throw", 0, Thrown, Undefined)))
    ELSE Commit(pullInit(rd.m, i, rd.result, "throw"))

\* pull under asyncSequence: the source is read during the call, the rest
\* is a reaction of a promise of its own
pullAsync(rd, i) ==
  IF rd.result.value = Thrown
    THEN Commit(Log(rd.m, Event(i, "throw", 0, Thrown, Undefined)))
    ELSE Commit([rd.m EXCEPT !.pulls[i] =
                   Append(@, Pending("src", SourceResult(rd.result)))])

\* chain.pull(fn): every action hands the call to its prev, the root runs
\* this.exec(undefined, init) = this.strategy(this.dataIter, undefined, init).
\* Without a strategy that is a TypeError before anything is read; a
\* consumer-supplied strategy answers by itself.
pull(i) ==
  /\ PullCount(i) < MaxPulls
  /\ LET m0 == Log(Mem, Event(i, "pull", 0, Undefined, Undefined))
     IN CASE strategy = "none" ->
               Commit(Log(m0, Event(i, "throw", 0, Thrown, Undefined)))
          [] strategy = "custom" ->
               Commit(Log(m0, Event(i, "pullret", 0, Custom, False)))
          [] strategy = "sync" -> pullSync(dataIterNext(m0, i, Undefined), i)
          [] strategy = "async" -> pullAsync(dataIterNext(m0, i, Undefined), i)
  /\ UNCHANGED <<items, srcKind, chain, strategy, iters, task>>

\* .then((result) => result.done ? init(result) : pushValue(init(result)))
\* of a pull under asyncSequence: init is called as in pullInit ("pullfn"
\* on the root alone, a TypeError on a chain with stages), and the promise
\* pull returned settles one reaction later
pullThen(m, i, result) ==
  IF result.value = Rejected
    THEN [m EXCEPT !.pulls[i] = Append(@, Pending("ret", NoResult(Rejected)))]
  ELSE IF chain = <<>>
    THEN [Log(m, Event(i, "pullfn", 0, result.value, result.done))
            EXCEPT !.pulls[i] = Append(@, Pending("ret", result))]
  ELSE [m EXCEPT !.pulls[i] = Append(@, Pending("ret", NoResult(Thrown)))]

\* the promise a pull returned settles
pullSettle(m, i, r) ==
  IF HasResult(r)
    THEN Log(m, Event(i, "pullret", 0, r.value, r.done))
    ELSE Log(m, Event(i, "reject", 0, Thrown, Undefined))

\* the oldest pending reaction of consumer i's pulls runs
ThenPull(i) ==
  /\ pulls[i] # <<>>
  /\ LET m0 == [Mem EXCEPT !.pulls[i] = Tail(@)]
     IN IF Head(pulls[i]).st = "ret"
          THEN Commit(pullSettle(m0, i, Head(pulls[i]).r))
          ELSE Commit(pullThen(m0, i, Head(pulls[i]).r))
  /\ UNCHANGED <<items, srcKind, chain, strategy, iters, task>>

\* c.withStrategy(custom) on the object coseq(dataIter) returns, whether or
\* not an iterator has been asked for
RootAction_withStrategy ==
  /\ strategy # "custom"
  /\ strategy' = "custom"
  /\ UNCHANGED <<items, srcKind, pos, finished, chain, active, count, iters, each,
                 pulls, task, trace>>

\* it.withStrategy(custom), custom being
\* () => ({ value: "custom", done: false }): stored on the RootAction
withStrategy(i) ==
  /\ iters[i] \in {"sync", "async"}
  /\ strategy # "custom"
  /\ strategy' = "custom"
  /\ UNCHANGED <<items, srcKind, pos, finished, chain, active, count, iters, each, pulls,
                 task, trace>>

CustomCount(i) ==
  Cardinality({j \in 1..Len(trace[i]) :
                 trace[i][j].ev = "ret" /\ trace[i][j].v = Custom})

\* consumer i calls next() while the root's strategy is the
\* consumer-supplied function: the call returns what that returns
CustomNext(i) ==
  /\ CanPull(i)
  /\ strategy = "custom"
  /\ CustomCount(i) < MaxCustom
  /\ Commit(Log(Log(Mem, Event(i, "call", 0, Undefined, Undefined)),
                Event(i, "ret", 0, Custom, False)))
  /\ UNCHANGED <<items, srcKind, chain, strategy, iters, task>>

ApiStages == {FilterAction("isEven"), MapAction("times3")}

InitApi ==
  /\ InitSource
  /\ \E c \in SeqsUpTo(ApiStages, 1) : InitChain(c)
  /\ InitConsumers(1)

NextApi ==
  \/ \E i \in DOMAIN iters : iterator(i)
  \/ \E i \in DOMAIN iters : asyncIterator(i)
  \/ \E i \in DOMAIN iters : SyncNext(i)
  \/ \E i \in DOMAIN iters : AsyncNext(i)
  \/ \E i \in DOMAIN iters : ThenSource(i)
  \/ \E i \in DOMAIN iters : ThenInner(i)
  \/ \E i \in DOMAIN iters : ThenResult(i)
  \/ \E i \in DOMAIN iters : pull(i)
  \/ \E i \in DOMAIN iters : ThenPull(i)
  \/ \E i \in DOMAIN iters : withStrategy(i)
  \/ RootAction_withStrategy
  \/ \E i \in DOMAIN iters : CustomNext(i)

SpecApi == InitApi /\ [][NextApi]_vars

----------------------------------------------------------------------------
(* Consumers that pass an argument to next *)

\* what a consumer passes: nothing, or a value no item and no transform
\* produces
Arguments == {Undefined, Num(9)}

SyncNextArg(i) == \E value \in Arguments : SyncNextWith(i, value)
AsyncNextArg(i) == \E value \in Arguments : AsyncNextWith(i, value)

NextArg ==
  \/ \E i \in DOMAIN iters : iterator(i)
  \/ \E i \in DOMAIN iters : asyncIterator(i)
  \/ \E i \in DOMAIN iters : SyncNextArg(i)
  \/ \E i \in DOMAIN iters : AsyncNextArg(i)
  \/ \E i \in DOMAIN iters : ThenSource(i)
  \/ \E i \in DOMAIN iters : ThenInner(i)
  \/ \E i \in DOMAIN iters : ThenResult(i)

SpecArg == Init /\ [][NextArg]_vars

----------------------------------------------------------------------------
(* take(n), as the readme calls it on a chain *)

\* chain.take(n): Action and its subclasses define no take, so that the
\* property is undefined and calling it raises a TypeError; the consumer
\* is handed no chain to derive an iterator from
take(i) ==
  /\ iters[i] = "none"
  /\ \A j \in 1..Len(trace[i]) : trace[i][j].ev # "take"
  /\ \E n \in 0..MaxTake :
       trace' = [trace EXCEPT ![i] =
                   @ \o <<Event(i, "take", 0, Num(n), Undefined),
                          Event(i, "throw", 0, Thrown, Undefined)>>]
  /\ UNCHANGED <<items, srcKind, pos, finished, chain, active, count, strategy,
                 iters, each, pulls, task>>

NextTake ==
  \/ \E i \in DOMAIN iters : take(i)
  \/ \E i \in DOMAIN iters : iterator(i)
  \/ \E i \in DOMAIN iters : asyncIterator(i)
  \/ \E i \in DOMAIN iters : SyncNext(i)
  \/ \E i \in DOMAIN iters : AsyncNext(i)
  \/ \E i \in DOMAIN iters : ThenSource(i)
  \/ \E i \in DOMAIN iters : ThenInner(i)
  \/ \E i \in DOMAIN iters : ThenResult(i)

SpecTake == Init /\ [][NextTake]_vars

----------------------------------------------------------------------------
(* One asynchronous iterator whose next() is called again before the      *)
(* promise of the previous call has settled: index i of iters, task and   *)
(* trace is the i-th of the calls that may be outstanding together         *)

\* it = chain.asyncIterator(), the one iterator every call goes to
asyncIteratorOnce ==
  /\ \A i \in DOMAIN iters : iters[i] = "none"
  /\ iters' = [i \in DOMAIN iters |-> "async"]
  /\ strategy' = "async"
  /\ UNCHANGED <<items, srcKind, pos, finished, chain, active, count, each, pulls, task, trace>>

NextOverlap ==
  \/ asyncIteratorOnce
  \/ \E i \in DOMAIN iters : AsyncNext(i)
  \/ \E i \in DOMAIN iters : ThenSource(i)
  \/ \E i \in DOMAIN iters : ThenInner(i)
  \/ \E i \in DOMAIN iters : ThenResult(i)

SpecOverlap == InitShared /\ [][NextOverlap]_vars

----------------------------------------------------------------------------
(* src/index.js: syncSequence(dataIter) ... .iterator()                    *)

\* createNext: { iter: result.skip ? root : iter, value: result.value }
Index_doneCallback(m, i, k, result) ==
  [done |-> Undefined,
   iter |-> IF Truthy(result.skip) THEN IterRef(0) ELSE IterAfter(m, i, k),
   value |-> result.value]

\* result.iter.next(result.value, (nextResult) => stack.unshift(nextResult))
\* for the popped result; yields the stack afterwards.  The root's fn
\* returns a completion result to its caller, which drops it: nothing is
\* queued for it.
Index_iterNext(m, i, result, stack) ==
  IF result.iter.n = 0
    THEN LET rd == dataIterNext(m, i, result.value)
         IN IF Truthy(rd.result.done)
              THEN [m |-> rd.m, stack |-> stack]
              ELSE [m |-> rd.m,
                    stack |-> <<Index_doneCallback(rd.m, i, 0,
                                  [skip |-> Undefined, value |-> rd.result.value,
                                   done |-> Undefined])>> \o stack]
    ELSE LET e == exec(m, i, result.iter.n, result.value)
         IN IF e.result.value = Deferred
              THEN [m |-> e.m, stack |-> stack]
              ELSE [m |-> e.m,
                    stack |-> <<Index_doneCallback(e.m, i, result.iter.n,
                                                   e.result)>> \o stack]

\* while (stack.length) { result = stack.pop(); ... } return result;
RECURSIVE Index_drain(_, _, _, _)
Index_drain(m, i, stack, result) ==
  IF stack = <<>>
    THEN [m |-> m, result |-> result]
    ELSE LET top == stack[Len(stack)]
             rest == SubSeq(stack, 1, Len(stack) - 1)
         IN IF Truthy(top.iter)
              THEN LET x == Index_iterNext(m, i, top, rest)
                   IN Index_drain(x.m, i, x.stack, top)
              ELSE Index_drain(m, i, rest, top)

Index_pushValue(m, i, result) ==
  IF ~Truthy(result.iter)
    THEN [m |-> m, result |-> result]
    ELSE Index_drain(m, i, <<result>>, result)

\* the RootAction's fn as called by the consumer's next():
\* result.done ? result : pushValue(init(result))
Index_syncSequence(m, i, value) ==
  LET rd == dataIterNext(m, i, value)
  IN IF Truthy(rd.result.done)
       THEN [m |-> rd.m, result |-> SourceResult(rd.result)]
       ELSE Index_pushValue(rd.m, i,
              Index_doneCallback(rd.m, i, 0, [skip |-> Undefined, value |-> rd.result.value,
                                     done |-> Undefined]))

\* iterator() { return buildActionSequence(this); }: an ActionIterator
\* over a syncSequence root, an AsyncActionIterator over an asyncSequence
\* root
Index_iterator(i) ==
  /\ iters[i] = "none"
  /\ iters' = [iters EXCEPT ![i] = strategy]
  /\ UNCHANGED <<items, srcKind, pos, finished, chain, active, count, strategy,
                 each, pulls, task, trace>>

\* consumer i calls next() on a sequence whose root is syncSequence's
Index_next(i) ==
  /\ CanPull(i)
  /\ strategy = "sync"
  /\ LET r == Index_syncSequence(
                Log(Mem, Event(i, "call", 0, Undefined, Undefined)), i, Undefined)
     IN Commit(Log(r.m, Event(i, "ret", 0, r.result.value, r.result.done)))
  /\ UNCHANGED <<items, srcKind, chain, strategy, iters, task>>

\* the state before any consumer has asked for an iterator; in index.js
\* `strategy` is the root the chain was started from
Index_InitConsumers(n) ==
  /\ iters = [i \in 1..n |-> "none"]
  /\ each = [i \in 1..n |-> "none"]
  /\ pulls = [i \in 1..n |-> <<>>]
  /\ task = [i \in 1..n |-> Idle]
  /\ trace = [i \in 1..n |-> <<>>]

\* syncSequence(dataIter) followed by the chain-building calls
InitIndex ==
  /\ InitSource
  /\ \E c \in SeqsUpTo(Index_Stages, MaxStages) : InitChain(c)
  /\ strategy = "sync"
  /\ Index_InitConsumers(1)

NextIndex ==
  \/ \E i \in DOMAIN iters : Index_iterator(i)
  \/ \E i \in DOMAIN iters : Index_next(i)

SpecIndex == InitIndex /\ [][NextIndex]_vars

----------------------------------------------------------------------------
(* src/index.js: asyncSequence(dataIter), forEach and pull                 *)

\* asyncSequence's pushValue(result)
Index_asyncPushValue(m, i, r) ==
  IF ~Truthy(r.iter)
    THEN Settle(m, i, r)
    ELSE IF r.iter.n = 0
      THEN \E rd \in {dataIterNext(m, i, r.value)} :
              /\ task' = [task EXCEPT ![i] =
                            Pending("srcInner", SourceResult(rd.result))]
              /\ Commit(rd.m)
      ELSE \E e \in {exec(m, i, r.iter.n, r.value)} :
              IF e.result.value = Thrown
                THEN Reject(e.m, i)
              ELSE IF e.result.value = Deferred
                THEN /\ task' = [task EXCEPT ![i] = Pending("await", r)]
                     /\ Commit(e.m)
              ELSE /\ task' = [task EXCEPT ![i] =
                                 Pending("res", Index_doneCallback(e.m, i,
                                                  r.iter.n, e.result))]
                   /\ Commit(e.m)

\* consumer i calls next() on a sequence whose root is asyncSequence's:
\* Promise.resolve(dataIter.next(value)).then(...)
Index_asyncNext(i) ==
  /\ CanPull(i)
  /\ strategy = "async"
  /\ \E rd \in {dataIterNext(Log(Mem, Event(i, "call", 0, Undefined, Undefined)),
                              i, Undefined)} :
       /\ task' = [task EXCEPT ![i] = Pending("src", SourceResult(rd.result))]
       /\ Commit(rd.m)
  /\ UNCHANGED <<items, srcKind, chain, strategy, iters>>

\* .then((result) => result.done ? result : pushValue(init(result))) of the
\* consumer's own call: a completion is the source's own object
Index_ThenSource(i) ==
  /\ task[i].st = "src"
  /\ IF Truthy(task[i].r.done)
       THEN Settle(Mem, i, task[i].r)
       ELSE Index_asyncPushValue(Mem, i,
              Index_doneCallback(Mem, i, 0, [skip |-> Undefined,
                                             value |-> task[i].r.value,
                                             done |-> Undefined]))
  /\ UNCHANGED <<items, srcKind, chain, strategy, iters>>

\* the same reaction for a re-read after a skip, init calling pushValue's
\* resolve.  A completion is returned to a promise next() drops without
\* init being called: resolve is never run and the pull's promise stays
\* pending.
Index_ThenInner(i) ==
  /\ task[i].st = "srcInner"
  /\ IF Truthy(task[i].r.done)
       THEN task' = [task EXCEPT ![i] = Pending("stuck", NoResult(Deferred))]
       ELSE task' = [task EXCEPT ![i] =
                       Pending("res", Index_doneCallback(Mem, i, 0,
                                        [skip |-> Undefined,
                                         value |-> task[i].r.value,
                                         done |-> Undefined]))]
  /\ UNCHANGED <<items, srcKind, pos, finished, chain, active, count, strategy,
                 iters, each, pulls, trace>>

\* .then(result => result.done ? result : pushValue(result))
Index_ThenResult(i) ==
  /\ task[i].st = "res"
  /\ IF Truthy(task[i].r.done)
       THEN Settle(Mem, i, task[i].r)
       ELSE Index_asyncPushValue(Mem, i, task[i].r)
  /\ UNCHANGED <<items, srcKind, chain, strategy, iters>>

\* the callback awaitValue or delay left behind runs: done({ value })
\* through createNext's callback to pushValue's resolve
Index_ThenAwait(i) ==
  /\ task[i].st = "await"
  /\ LET k == task[i].r.iter.n
         v == IF chainOf(Mem, i)[k].kind = "awaitValue"
                THEN Awaited(task[i].r.value) ELSE task[i].r.value
     IN /\ task' = [task EXCEPT ![i] =
                      Pending("res", Index_doneCallback(Mem, i, k,
                                       [skip |-> Undefined, value |-> v,
                                        done |-> Undefined]))]
        /\ Commit(Log(Mem, Event(i, "then", k, task[i].r.value, v)))
  /\ UNCHANGED <<items, srcKind, chain, strategy, iters>>

\* root.next() as iterateSequence calls it, x being what the synchronous
\* root's function yields
Index_rootNextSync(x, i) ==
  /\ task' = [task EXCEPT ![i] = Pending("each", x.result)]
  /\ Commit(Log(x.m, Event(i, "ret", 0, x.result.value, x.result.done)))

Index_rootNextAsync(rd, i) ==
  /\ task' = [task EXCEPT ![i] = Pending("src", SourceResult(rd.result))]
  /\ Commit(rd.m)

Index_rootNext(m, i) ==
  LET m0 == Log(m, Event(i, "call", 0, Undefined, Undefined))
  IN IF strategy = "async"
       THEN Index_rootNextAsync(dataIterNext(m0, i, Undefined), i)
       ELSE Index_rootNextSync(Index_syncSequence(m0, i, Undefined), i)

\* forEach(cb): buildActionSequence(new ForEachAction(this, cb)), then the
\* first iterateSequence(sequence) inside the Promise executor
Index_forEach(i) ==
  /\ iters[i] = "none"
  /\ iters' = [iters EXCEPT ![i] = "forEach"]
  /\ \E cb \in Callbacks : Index_rootNext([Mem EXCEPT !.each[i] = cb], i)
  /\ UNCHANGED <<items, srcKind, chain, strategy>>

\* .then((result) => result.done ? resolve(result) : iterateSequence(root))
Index_iterateSequence(i) ==
  /\ task[i].st = "each"
  /\ IF Truthy(task[i].r.done)
       THEN /\ task' = [task EXCEPT ![i] = Idle]
            /\ Commit(Log(Mem, Event(i, "resolve", 0, task[i].r.value,
                                     task[i].r.done)))
       ELSE Index_rootNext(Mem, i)
  /\ UNCHANGED <<items, srcKind, chain, strategy, iters>>

\* result.done ? result : pushValue(init(result)) as pull reaches it: a
\* completion is answered as it is, without init
Index_pullInit(m, i, result, failure) ==
  IF Truthy(result.done)
    THEN Log(m, Event(i, "pullret", 0, result.value, result.done))
    ELSE pullInit(m, i, result, failure)

\* chain.pull(fn): the root runs this.fn(undefined, init)
Index_pull(i) ==
  /\ PullCount(i) < MaxPulls
  /\ \E rd \in {dataIterNext(Log(Mem, Event(i, "pull", 0, Undefined, Undefined)),
                              i, Undefined)} :
       IF strategy = "async"
         THEN Commit([rd.m EXCEPT !.pulls[i] =
                        Append(@, Pending("src", SourceResult(rd.result)))])
         ELSE Commit(Index_pullInit(rd.m, i, rd.result, "throw"))
  /\ UNCHANGED <<items, srcKind, chain, strategy, iters, task>>

\* the reaction of a pull on an asyncSequence root, a promise of its own
\* .then((result) => result.done ? result : pushValue(init(result))) of a
\* pull
Index_pullThen(m, i, result) ==
  IF Truthy(result.done)
    THEN [m EXCEPT !.pulls[i] = Append(@, Pending("ret", result))]
    ELSE pullThen(m, i, result)

Index_ThenPull(i) ==
  /\ pulls[i] # <<>>
  /\ LET m0 == [Mem EXCEPT !.pulls[i] = Tail(@)]
     IN IF Head(pulls[i]).st = "ret"
          THEN Commit(pullSettle(m0, i, Head(pulls[i]).r))
          ELSE Commit(Index_pullThen(m0, i, Head(pulls[i]).r))
  /\ UNCHANGED <<items, srcKind, chain, strategy, iters, task>>

Index_ApiStages ==
  {FilterAction("isEven"), MapAction("times3"), Index_skip(1), AwaitValueAction}

\* syncSequence(dataIter) or asyncSequence(dataIter) followed by the
\* chain-building calls
InitIndexApi ==
  /\ InitSource
  /\ \E c \in SeqsUpTo(Index_ApiStages, 1) : InitChain(c)
  /\ strategy \in {"sync", "async"}
  /\ Index_InitConsumers(1)

NextIndexApi ==
  \/ \E i \in DOMAIN iters : Index_iterator(i)
  \/ \E i \in DOMAIN iters : Index_next(i)
  \/ \E i \in DOMAIN iters : Index_asyncNext(i)
  \/ \E i \in DOMAIN iters : Index_ThenSource(i)
  \/ \E i \in DOMAIN iters : Index_ThenInner(i)
  \/ \E i \in DOMAIN iters : Index_ThenResult(i)
  \/ \E i \in DOMAIN iters : Index_ThenAwait(i)
  \/ \E i \in DOMAIN iters : Index_forEach(i)
  \/ \E i \in DOMAIN iters : Index_iterateSequence(i)
  \/ \E i \in DOMAIN iters : Index_pull(i)
  \/ \E i \in DOMAIN iters : Index_ThenPull(i)

SpecIndexApi == InitIndexApi /\ [][NextIndexApi]_vars

----------------------------------------------------------------------------
(* Reading the observation log *)

Rets(i) == SelectSeq(trace[i], LAMBDA e : e.ev = "ret")
Values(s) == [j \in 1..Len(s) |-> s[j].v]
\* the values consumer i received with done = false, in order
Emitted(i) == Values(SelectSeq(Rets(i), LAMBDA e : e.d = False))
HasDone(i) == \E j \in 1..Len(Rets(i)) : Rets(i)[j].d = True
FirstDone(i) == CHOOSE j \in 1..Len(Rets(i)) :
                  /\ Rets(i)[j].d = True
                  /\ \A h \in 1..(j - 1) : Rets(i)[h].d # True
Nums(s) == [j \in 1..Len(s) |-> Num(s[j])]
IsPrefix(a, b) == Len(a) <= Len(b) /\ a = SubSeq(b, 1, Len(a))
Satisfying(pred, s) == SelectSeq(Nums(s), LAMBDA v : Truthy(ApplyFn(pred, v)))
Quiet(i) == task[i].st = "idle"

\* every result carries a boolean done; the first completion carries the
\* source's return value and nothing is emitted after it
EndsWithTerminal(i) ==
  /\ \A j \in 1..Len(Rets(i)) : Rets(i)[j].d \in {True, False}
  /\ HasDone(i) =>
       /\ Rets(i)[FirstDone(i)].v = Yes
       /\ \A j \in FirstDone(i)..Len(Rets(i)) : Rets(i)[j].d = True

----------------------------------------------------------------------------
(* Claims *)

\* C1: once a pull-next has returned done=true, every later pull-next on
\* the same iterator returns done=true with value undefined.  (Stated as
\* claimed; the code has no done latch and hands on whatever the source
\* answers, see C2.)
C1_DoneThenUndefined ==
  \A i \in DOMAIN iters :
    \A a, b \in 1..Len(Rets(i)) :
      (a < b /\ Rets(i)[a].d = True) =>
        (Rets(i)[b].d = True /\ Rets(i)[b].v = Undefined)

\* C2: after a pull-next has returned done=true, no later pull-next on that
\* iterator calls the source's next or a stage's user function.  (Stated as
\* claimed.)
C2_NoWorkAfterDone ==
  \A i \in DOMAIN iters :
    \A a, b \in 1..Len(trace[i]) :
      (a < b /\ trace[i][a].ev = "ret" /\ trace[i][a].d = True) =>
        trace[i][b].ev \notin {"src", "fn"}

\* C3: the iterator of source.filter(p) returns, with done=false, exactly
\* the source items satisfying p in source order, then one result with
\* done=true carrying the source's return value, also when the last items
\* are rejected.
C3_FilterEmitsMatching ==
  \A p \in Predicates :
    chain = <<FilterAction(p)>> =>
      /\ IsPrefix(Emitted(1), Satisfying(p, items))
      /\ Quiet(1) => Emitted(1) = Satisfying(p, SubSeq(items, 1, pos))
      /\ HasDone(1) => Emitted(1) = Satisfying(p, items)
      /\ EndsWithTerminal(1)

\* C3 witness: a filter that accepted an item, rejected the last one and
\* then reported completion with the return value
C3_Witness ==
  /\ chain = <<FilterAction("isEven")>>
  /\ Len(items) = 3 /\ items[3] = 1
  /\ Len(Emitted(1)) >= 1
  /\ HasDone(1)
  /\ Rets(1)[FirstDone(1)].v = Yes

\* C4: with syncSequence(source).filter(p).iterator() of index.js, the pull
\* after the last accepted item returns done=true with the source's return
\* value, and a rejected item is never returned.  (Stated as claimed.)
C4_IndexFilterEndsWithTerminal ==
  \A p \in Predicates :
    chain = <<FilterAction(p)>> =>
      /\ \A j \in 1..Len(Rets(1)) :
           \/ Rets(1)[j].d = True
           \/ Truthy(ApplyFn(p, Rets(1)[j].v))
      /\ HasDone(1) => Rets(1)[FirstDone(1)].v = Yes

----------------------------------------------------------------------------
(* C5 *)

FnCalls(i, k) == SelectSeq(trace[i], LAMBDA e : e.ev = "fn" /\ e.k = k)
FnArgs(i, k) == Values(FnCalls(i, k))
\* the values a map or filter at position k has handed to the next stage
Passed(i, k) ==
  IF chain[k].kind = "map"
    THEN [j \in 1..Len(FnCalls(i, k)) |-> FnCalls(i, k)[j].d]
    ELSE Values(SelectSeq(FnCalls(i, k), LAMBDA e : Truthy(e.d)))
\* what reaches position k: the items read, or what position k - 1 passed
Reaching(i, k) ==
  IF k = 1 THEN Nums(SubSeq(items, 1, pos)) ELSE Passed(i, k - 1)
OncePerItem(have, want, quiet) ==
  /\ IsPrefix(have, want)
  /\ Len(have) >= Len(want) - 1
  /\ quiet => have = want

\* C5: a map(f) stage invokes f exactly once for each non-terminal item
\* that reaches it, never for the terminal value, and emits f(item) in
\* arrival order.
C5_MapOncePerItem ==
  \A k \in 1..Len(chain) :
    chain[k].kind = "map" =>
      /\ \A j \in 1..Len(FnArgs(1, k)) : FnArgs(1, k)[j].t = "number"
      /\ (k = 1 \/ chain[k - 1].kind \in {"map", "filter"}) =>
           OncePerItem(FnArgs(1, k), Reaching(1, k), Quiet(1))
      /\ k = Len(chain) =>
           OncePerItem(Emitted(1),
                       [j \in 1..Len(FnArgs(1, k)) |->
                          ApplyFn(chain[k].fn, FnArgs(1, k)[j])],
                       Quiet(1))

\* C5 witness: filter then map, two items mapped and delivered, source
\* completion delivered
C5_Witness ==
  /\ chain = <<FilterAction("isEven"), MapAction("times3")>>
  /\ Emitted(1) = <<Num(6), Num(6)>>
  /\ Len(FnArgs(1, 2)) = 2
  /\ HasDone(1)

----------------------------------------------------------------------------
(* C6, C7 *)

\* items[from..to] as values, empty when from > to
Slice(from, to) ==
  IF from > to THEN <<>> ELSE Nums(SubSeq(items, from, to))

SkipsFirst(n) ==
  /\ IsPrefix(Emitted(1), Slice(n + 1, Len(items)))
  /\ Quiet(1) => Emitted(1) = Slice(n + 1, pos)
  /\ HasDone(1) => pos = Len(items)
  /\ EndsWithTerminal(1)

\* C6: coseq(source).skip(n) discards exactly the first min(n, length)
\* items, emits the remaining ones in source order with done=false, then
\* returns the source's return value with done=true.
C6_SkipDiscardsFirstN ==
  \A n \in 0..MaxSkip : chain = <<skip(n)>> => SkipsFirst(n)

\* C6 witness: skip(2) over three items delivered the third and then the
\* completion
C6_Witness ==
  /\ chain = <<skip(2)>>
  /\ Len(items) = 3
  /\ Emitted(1) = <<Num(items[3])>>
  /\ HasDone(1)
  /\ Rets(1)[FirstDone(1)].v = Yes

\* C7: in index.js, skip(count) discards exactly the first count items and
\* lets every later item through.  (Stated as claimed.)
C7_IndexSkipDiscardsFirstN ==
  \A n \in 0..MaxSkip :
    chain = <<Index_skip(n)>> =>
      Values(SelectSeq(Rets(1), LAMBDA e : e.d # True)) = Slice(n + 1, pos)

----------------------------------------------------------------------------
(* C8 *)

IsSkipUntil(k) == chain[k].kind = "skipUntil"

\* position of the first item satisfying pred, Len(items) + 1 if none does
FirstTrue(pred) ==
  IF \E j \in 1..Len(items) : Truthy(ApplyFn(pred, Num(items[j])))
    THEN CHOOSE j \in 1..Len(items) :
           /\ Truthy(ApplyFn(pred, Num(items[j])))
           /\ \A h \in 1..(j - 1) : ~Truthy(ApplyFn(pred, Num(items[h])))
    ELSE Len(items) + 1

\* the predicate was false on every call but the one that ended the
\* skipping, and _active tells whether that call has happened
C8_State ==
  /\ \A k \in 1..Len(chain) :
       IsSkipUntil(k) =>
         LET calls == FnCalls(1, k)
         IN /\ \A j \in 1..(Len(calls) - 1) : ~Truthy(calls[j].d)
            /\ active[k] <=> (calls = <<>> \/ ~Truthy(calls[Len(calls)].d))
  /\ \A p \in Predicates :
       chain = <<SkipUntilAction(p)>> =>
         /\ IsPrefix(Emitted(1), Slice(FirstTrue(p), Len(items)))
         /\ Quiet(1) => Emitted(1) = Slice(FirstTrue(p), pos)

\* once a skipUntil stage has let an item through it stays inactive and
\* its predicate is not called again
C8_Step ==
  \A k \in 1..Len(chain) :
    (IsSkipUntil(k) /\ ~active[k]) =>
      (~active'[k] /\ FnCalls(1, k)' = FnCalls(1, k))

\* C8: skipUntil(p) is a one-time operation: every item before the first
\* one satisfying p is skipped, that one is emitted, and from then on every
\* item passes and p is never invoked again by that stage.
C8_SkipUntilOneTime == []C8_State /\ [][C8_Step]_vars

\* C8 witness: after the triggering item, an item that does not satisfy p
\* was emitted
C8_Witness ==
  /\ chain = <<SkipUntilAction("isEven")>>
  /\ items = <<1, 2, 1>>
  /\ Emitted(1) = <<Num(2), Num(1)>>
  /\ ~active[1]
  /\ Len(FnCalls(1, 1)) = 2

----------------------------------------------------------------------------
(* C9 *)

\* a predicate call that made its stage signal skip
IsSkipEvent(e) ==
  /\ e.ev = "fn"
  /\ chainOf(Mem, e.it)[e.k].kind \in {"filter", "skipUntil"}
  /\ ~Truthy(e.d)

\* index of the last source read before position r of consumer i's log
LastRead(i, r) ==
  CHOOSE j \in 1..r :
    /\ trace[i][j].ev = "src"
    /\ \A h \in (j + 1)..r : trace[i][h].ev # "src"

\* source reads made for the pull that produced the result at position r
ReadsOfPull(i, r) ==
  Cardinality({j \in 1..r :
                 /\ trace[i][j].ev = "src"
                 /\ \A h \in j..(r - 1) : trace[i][h].ev \notin {"ret", "settle"}})

\* C9: when a stage skips every remaining item, a single pull-next reads
\* the source to exhaustion and returns done=true with the source's return
\* value; no pull returns a skipped item or a completion without it.
C9_SkipToExhaustion ==
  /\ \A r \in 1..Len(trace[1]) :
       trace[1][r].ev = "ret" =>
         LET s == LastRead(1, r)
         IN /\ trace[1][r].d \in {True, False}
            /\ \A h \in s..r : ~IsSkipEvent(trace[1][h])
            /\ trace[1][r].d = trace[1][s].d
  /\ EndsWithTerminal(1)
  /\ (chain = <<SkipUntilAction("is6")>> /\ Rets(1) # <<>>) =>
       /\ Rets(1)[1].d = True /\ Rets(1)[1].v = Yes
       /\ pos = Len(items)
       /\ \A r \in 1..Len(trace[1]) :
            (trace[1][r].ev = "ret" /\ \A h \in 1..(r - 1) : trace[1][h].ev # "ret")
              => ReadsOfPull(1, r) = Len(items) + 1

\* C9 witness: an asynchronous pull over three items, all skipped, that
\* returned the completion
C9_Witness ==
  /\ chain = <<SkipUntilAction("is6")>>
  /\ iters[1] = "async"
  /\ Len(items) = 3
  /\ Rets(1) = <<Event(1, "ret", 0, Yes, True)>>
  /\ Len(FnCalls(1, 1)) = 3

----------------------------------------------------------------------------
(* C10 *)

\* the results consumer i's pulls produced, whether handed over directly
\* or through the promise
Results(i) ==
  SelectSeq(trace[i], LAMBDA e : e.ev \in {"ret", "settle"} /\ e.v # PromiseObject)
ResultValues(i) == Values(SelectSeq(Results(i), LAMBDA e : e.d = False))
ItemsRead(i) ==
  Cardinality({j \in 1..Len(trace[i]) :
                 trace[i][j].ev = "src" /\ trace[i][j].d = False})

\* C10: two iterators of one chain containing skip or skipUntil each apply
\* the skip logic from its initial state, whatever the other one has
\* skipped or triggered.  (Stated as claimed.)
C10_IteratorsSkipIndependently ==
  \A i \in DOMAIN iters :
    Quiet(i) =>
      /\ \A n \in 0..MaxSkip :
           chain = <<skip(n)>> =>
             Len(ResultValues(i)) =
               (IF ItemsRead(i) > n THEN ItemsRead(i) - n ELSE 0)
      /\ \A p \in Predicates :
           (chain = <<SkipUntilAction(p)>> /\ ResultValues(i) # <<>>) =>
             Truthy(ApplyFn(p, ResultValues(i)[1]))

----------------------------------------------------------------------------
(* C11 *)

\* C11: an iterator obtained from iterator() keeps running under the
\* synchronous strategy: each of its next() calls returns a value/done
\* pair, never a promise, also after asyncIterator() has been called on
\* the same chain.  (Stated as claimed; withStrategy stores the strategy
\* on the RootAction every iterator of the chain shares.)
C11_SyncIteratorStaysSync ==
  \A i \in DOMAIN iters :
    iters[i] = "sync" =>
      \A j \in 1..Len(Rets(i)) :
        /\ Rets(i)[j].v # PromiseObject
        /\ Rets(i)[j].d \in {True, False}

----------------------------------------------------------------------------
(* C12 *)

\* the promise forEach returned has been resolved
Resolved(i) == \E j \in 1..Len(trace[i]) : trace[i][j].ev = "resolve"

\* a pull is issued only after the previous one has handed over its result
OnePullAtATime(i) ==
  /\ \A a, b \in 1..Len(trace[i]) :
       (a < b /\ trace[i][a].ev = "call" /\ trace[i][b].ev = "call") =>
         \E c \in (a + 1)..(b - 1) : trace[i][c].ev = "ret"
  /\ \A a \in 1..(Len(trace[i]) - 1) :
       trace[i][a].ev = "ret" => trace[i][a + 1].ev \in {"call", "resolve"}

C12_State ==
  iters[1] = "forEach" =>
    LET k == Len(chain) + 1
    IN /\ chainOf(Mem, 1)[k].kind = "forEach"
       /\ \A j \in 1..Len(FnArgs(1, k)) : FnArgs(1, k)[j].t = "number"
       /\ (k = 1 \/ chain[k - 1].kind \in {"map", "filter"}) =>
            OncePerItem(FnArgs(1, k), Reaching(1, k), Quiet(1))
       /\ (chain = <<skip(MaxSkip)>> /\ each[1] = "collect") =>
            /\ IsPrefix(FnArgs(1, k), Slice(MaxSkip + 1, Len(items)))
            /\ Quiet(1) => FnArgs(1, k) = Slice(MaxSkip + 1, Len(items))
       /\ OnePullAtATime(1)
       /\ \A j \in 1..Len(trace[1]) :
            trace[1][j].ev = "resolve" =>
              /\ j = Len(trace[1])
              /\ trace[1][j].v = Yes /\ trace[1][j].d = True
              /\ pos = Len(items)
              /\ \A h \in 1..(j - 1) :
                   trace[1][h].ev = "ret" =>
                     (trace[1][h].d = True <=> h = j - 1)
       /\ Quiet(1) => Resolved(1)

\* C12: forEach(cb) pulls one item at a time, invokes cb exactly once for
\* every item that passes all stages, in order and never for the terminal
\* value, and its promise resolves with the completion result carrying the
\* source's terminal value.
C12_ForEachDrains ==
  /\ []C12_State
  /\ (iters[1] = "forEach") ~> Resolved(1)

\* C12 witness: forEach behind a filter has called cb for the two accepted
\* items and resolved
C12_Witness ==
  /\ chain = <<FilterAction("isEven")>>
  /\ each[1] = "collect"
  /\ items = <<2, 1, 2>>
  /\ FnArgs(1, 2) = <<Num(2), Num(2)>>
  /\ Resolved(1)

----------------------------------------------------------------------------
(* C13 *)

\* the value the source answered at the completion read at position s of
\* consumer i's log: the generator's return value the first time,
\* undefined from a finished generator afterwards
TerminalAt(i, s) ==
  IF srcKind = "generator" /\ \E h \in 1..(s - 1) :
                                trace[i][h].ev = "src" /\ trace[i][h].d = True
    THEN Undefined
    ELSE Yes

\* C13: when the source reports completion, on a consumer pull or on a
\* re-pull caused by a skip, the completion result reaches the consumer
\* with the source's terminal value unchanged and no stage's predicate or
\* transform is invoked on it.
C13_CompletionPassesThrough ==
  /\ \A j \in 1..Len(trace[1]) :
       trace[1][j].ev = "fn" => trace[1][j].v.t = "number"
  /\ \A r \in 1..Len(trace[1]) :
       trace[1][r].ev = "ret" =>
         LET s == LastRead(1, r)
         IN trace[1][s].d = True =>
              /\ \A h \in s..r : trace[1][h].ev # "fn"
              /\ trace[1][r].d = True
              /\ trace[1][r].v = TerminalAt(1, s)
  /\ \A s \in 1..Len(trace[1]) :
       (trace[1][s].ev = "src" /\ trace[1][s].d = True /\ Quiet(1)) =>
         \E r \in (s + 1)..Len(trace[1]) :
           /\ trace[1][r].ev = "ret"
           /\ LastRead(1, r) = s

\* C13 witness: the completion was read on a re-pull after a skip, behind
\* a map, and came back with the return value
C13_Witness ==
  /\ chain = <<FilterAction("isEven"), MapAction("times3")>>
  /\ items = <<1>>
  /\ Rets(1) = <<Event(1, "ret", 0, Yes, True)>>
  /\ ReadsOfPull(1, Len(trace[1])) = 2

----------------------------------------------------------------------------
(* C14 *)

\* an item the pending call i has read and not yet delivered
InFlight(i) == task[i].st # "idle" /\ ~Truthy(task[i].r.done)

\* C14: in the asynchronous strategy at most one item is in flight at any
\* time: the source is not read and no stage is entered for a later item
\* while an earlier item has not finished its traversal, also when next()
\* is called again before the previous promise has resolved.  (Stated as
\* claimed; asyncSequence reads the source synchronously inside every
\* next() call.)
C14_OneItemInFlight ==
  Cardinality({i \in DOMAIN iters : InFlight(i)}) <= 1

----------------------------------------------------------------------------
(* C15 *)

\* C15: during a synchronous pull-next the depth of nested calls is
\* bounded by a constant that depends neither on the number of stages nor
\* on the number of items skipped within the pull: whatever the chain and
\* the source, the pull a consumer can make next never nests deeper than
\* nine frames, the depth of a single re-read after a skip.
C15_SyncDepthBounded ==
  \A i \in DOMAIN iters :
    (CanPull(i) /\ strategy = "sync") => nextDepth(i) <= 9

\* C15 witness: behind two stages, after one emitted item, the pull about
\* to be made skips two items, re-reads the source three times and reaches
\* the deepest frame
C15_Witness ==
  /\ chain = <<FilterAction("isEven"), MapAction("times3")>>
  /\ items = <<2, 1, 1>>
  /\ strategy = "sync" /\ CanPull(1)
  /\ Emitted(1) = <<Num(6)>>
  /\ pos = 1
  /\ nextDepth(1) = 9

----------------------------------------------------------------------------
(* C16 *)

\* predicate calls that signalled skip during the pull that produced the
\* result at position r of consumer i's log
SkipsOfPull(i, r) ==
  Cardinality({j \in 1..r :
                 /\ IsSkipEvent(trace[i][j])
                 /\ \A h \in j..(r - 1) : trace[i][h].ev \notin {"ret", "settle"}})

\* C16: building a chain and obtaining an iterator reads nothing from the
\* source and calls no user function; a pull-next that returns an emitted
\* item has read exactly 1 + s source items, s being the number of items
\* skipped during that pull, so that no item is read ahead or buffered.
C16_NoWorkBeforePull ==
  /\ trace[1] = <<>> =>
       /\ pos = 0 /\ ~finished
       /\ \A k \in 1..Len(chain) :
            count[k] = chain[k].n /\ (active[k] <=> IsSkipUntil(k))
  /\ trace[1] # <<>> => trace[1][1].ev = "call"
  /\ pos = ItemsRead(1)
  /\ \A r \in 1..Len(trace[1]) :
       (trace[1][r].ev = "ret" /\ trace[1][r].d = False) =>
         ReadsOfPull(1, r) = 1 + SkipsOfPull(1, r)

\* C16 witness: an iterator was obtained and its first pull, behind
\* skip(2), read three items to return the third
C16_Witness ==
  /\ chain = <<skip(2)>>
  /\ Len(items) = 3
  /\ Len(Rets(1)) = 1 /\ Rets(1)[1].d = False
  /\ ReadsOfPull(1, Len(trace[1])) = 3
  /\ SkipsOfPull(1, Len(trace[1])) = 2

----------------------------------------------------------------------------
(* C17 *)

IsSourceFailure(e) == e.ev = "src" /\ e.d \in {Thrown, Rejected}

\* C17: if the source's next throws or returns a rejected promise during
\* any read made for a pull-next, the first of the pull or a re-read after
\* a skip, that pull-next throws (sync) or its promise rejects (async) with
\* that error, and a following pull-next reads the source again.  (Stated
\* as claimed; the promise of a re-read is dropped by asyncSequence's
\* pushValue.)
C17_SourceFailureSurfaces ==
  /\ \A s \in 1..Len(trace[1]) :
       IsSourceFailure(trace[1][s]) =>
         /\ task[1].st # "stuck"
         /\ s < Len(trace[1]) => trace[1][s + 1].ev \in {"throw", "reject"}
  /\ \A c \in 1..(Len(trace[1]) - 1) :
       trace[1][c].ev = "call" => trace[1][c + 1].ev = "src"

----------------------------------------------------------------------------
(* C18 *)

\* index of the call event of the pull that position f of consumer i's log
\* belongs to
CallOf(i, f) ==
  CHOOSE c \in 1..f :
    /\ trace[i][c].ev = "call"
    /\ \A h \in (c + 1)..f : trace[i][h].ev # "call"

\* an event that moves the pipeline state: an item taken from the source,
\* a call of skip's closure (it decrements the remaining count), or the
\* predicate call that clears a skipUntil's _active
ChangesState(e) ==
  \/ e.ev = "src" /\ e.d = False
  \/ /\ e.ev = "fn"
     /\ chain[e.k].kind = "skipUntil"
     /\ (chain[e.k].fn = "notCountdown" \/ (e.d # Thrown /\ Truthy(e.d)))

\* C18: when a stage's predicate or transform throws during a pull-next,
\* the error reaches the caller of that pull and the pipeline state (the
\* source position and every skip/skipUntil stage's active flag and
\* remaining count) is the same as before the failed pull.  (Stated as
\* claimed; nothing the pull did before the throw is undone.)
C18_StageFailureRestoresState ==
  \A f \in 1..Len(trace[1]) :
    (trace[1][f].ev = "fn" /\ trace[1][f].d = Thrown) =>
      /\ f < Len(trace[1]) => trace[1][f + 1].ev \in {"throw", "reject"}
      /\ \A h \in CallOf(1, f)..f : ~ChangesState(trace[1][h])

----------------------------------------------------------------------------
(* C19 *)

IsDeferring(k) == chain[k].kind \in {"awaitValue", "delay"}

\* C19: using awaitValue or delay in a pipeline driven through iterator()
\* raises an error synchronously at call time; it never makes a
\* synchronous pull-next loop forever or return a result that is neither
\* an emitted item nor a completion.  (Stated as claimed: whatever the
\* call that raises the error, every next() of such a pipeline comes back,
\* with the error or with a well-formed result.  No call checks the
\* strategy against the stages.)
C19_SyncMisuseRaises ==
  (iters[1] = "sync" /\ \E k \in 1..Len(chain) : IsDeferring(k)) =>
    /\ task[1].st # "spin"
    /\ \A j \in 1..Len(Rets(1)) : Rets(1)[j].d \in {True, False}

----------------------------------------------------------------------------
(* C20 *)

\* a read of the source or a user function call that failed
IsFailure(e) ==
  \/ IsSourceFailure(e)
  \/ e.ev = "fn" /\ e.d = Thrown

\* C20: if any pull issued by forEach fails (the source rejects, a
\* predicate or transform throws, or the forEach callback throws), the
\* promise returned by forEach rejects with that failure; it is never left
\* pending for ever.  (Stated as claimed; the promise is built with a
\* resolve function only.)
C20_ForEachRejects ==
  (iters[1] = "forEach" /\ \E j \in 1..Len(trace[1]) : IsFailure(trace[1][j])) =>
    /\ task[1].st # "stuck"
    /\ Quiet(1) => trace[1][Len(trace[1])].ev = "reject"

----------------------------------------------------------------------------
(* C21 *)

IsAwaitValue(k) == chain[k].kind = "awaitValue"
\* e records stage k being entered: its user function or its deferred
\* callback was given e.v
Enters(e, k) == e.k = k /\ e.ev \in {"fn", "then"}
\* the reaction of the awaitValue at k that precedes position j of the log
\* with no source read in between
ResolvedBefore(i, k, j) ==
  {h \in 1..(j - 1) :
     /\ trace[i][h].ev = "then" /\ trace[i][h].k = k
     /\ \A g \in (h + 1)..(j - 1) :
          trace[i][g].ev # "src" /\ ~Enters(trace[i][g], k)}

\* C21: in an asynchronous pipeline the stage following awaitValue is
\* entered only after the deferred item has resolved and is given the
\* resolved value, never the promise; items are emitted in source order.
C21_AwaitValueResolvesFirst ==
  iters[1] = "async" =>
    /\ \A k \in 1..Len(chain) :
         IsAwaitValue(k) =>
           /\ \A j \in 1..Len(trace[1]) :
                Enters(trace[1][j], k + 1) =>
                  /\ trace[1][j].v.t # "promised"
                  /\ \E h \in ResolvedBefore(1, k, j) :
                       trace[1][j].v = trace[1][h].d
           /\ \A j \in 1..Len(trace[1]) :
                (trace[1][j].ev = "then" /\ trace[1][j].k = k) =>
                  trace[1][j].d = Awaited(trace[1][j].v)
    /\ chain = <<AwaitValueAction>> =>
         /\ IsPrefix(Emitted(1), Nums(items))
         /\ Quiet(1) => Emitted(1) = Nums(SubSeq(items, 1, pos))
         /\ EndsWithTerminal(1)
    /\ \A p \in Predicates :
         chain = <<AwaitValueAction, FilterAction(p)>> =>
           /\ IsPrefix(Emitted(1), Satisfying(p, items))
           /\ Quiet(1) => Emitted(1) = Satisfying(p, SubSeq(items, 1, pos))
           /\ EndsWithTerminal(1)

\* C21 witness: promises of 1, 2 and again 2 awaited and then filtered for
\* even numbers: the predicate was given the numbers, 2 was emitted twice
\* and the completion followed
C21_Witness ==
  /\ srcKind = "promising"
  /\ items = <<1, 2, 2>>
  /\ chain = <<AwaitValueAction, FilterAction("isEven")>>
  /\ iters[1] = "async"
  /\ FnArgs(1, 2) = <<Num(1), Num(2), Num(2)>>
  /\ Emitted(1) = <<Num(2), Num(2)>>
  /\ HasDone(1)

----------------------------------------------------------------------------
(* C22 *)

\* the count consumer i gave to take, as a set: empty when it never called it
Taken(i) ==
  {trace[i][j].v.n : j \in {h \in 1..Len(trace[i]) : trace[i][h].ev = "take"}}
Min(a, b) == IF a < b THEN a ELSE b

\* C22: take(n) emits at most n non-terminal items whatever the source
\* length; when the source has fewer than n items, all of them are emitted
\* followed by the terminal value.  (Stated as claimed for a chain with
\* take(n) attached last: the call yields a chain, whose iterator hands
\* over the first min(n, length) items the chain lets through and then the
\* completion.  The code defines no take.)
C22_TakeEmitsAtMostN ==
  \A i \in DOMAIN iters :
    \A n \in Taken(i) :
      /\ \A j \in 1..Len(trace[i]) : trace[i][j].ev # "throw"
      /\ Len(Emitted(i)) <= n
      /\ (HasDone(i) /\ chain = <<>>) =>
           Emitted(i) = Nums(SubSeq(items, 1, Min(n, Len(items))))

----------------------------------------------------------------------------
(* C23 *)

\* the mutable state of a chain nothing has been pulled from
Fresh ==
  [pos |-> 0, finished |-> FALSE,
   active |-> [k \in 1..Len(chain) |-> chain[k].kind = "skipUntil"],
   count |-> [k \in 1..Len(chain) |-> chain[k].n],
   each |-> each,
   pulls |-> pulls,
   trace |-> [i \in DOMAIN trace |-> <<>>]]

Pair(result) == [v |-> result.value, d |-> result.done]
Pairs(s) == [j \in 1..Len(s) |-> [v |-> s[j].v, d |-> s[j].d]]

\* the results of the first n next() calls of a synchronous iterator
\* driven from memory m
RECURSIVE SyncResults(_, _)
SyncResultsFrom(r, n) == <<Pair(r.result)>> \o SyncResults(r.m, n - 1)
SyncResults(m, n) ==
  IF n = 0 THEN <<>> ELSE SyncResultsFrom(syncSequence(m, 1, Undefined), n)

\* C23: for the same source items and the same chain of map, filter, skip
\* and skipUntil stages, the asynchronous iterator, each pull awaited
\* before the next, delivers exactly the (value, done) results the
\* synchronous iterator delivers, in the same order.
C23_AsyncMatchesSync ==
  iters[1] = "async" =>
    Pairs(Rets(1)) = SyncResults(Fresh, Len(Rets(1)))

\* C23 witness: an asynchronous iterator over three items behind a skip and
\* a map that has delivered two items and the completion
C23_Witness ==
  /\ iters[1] = "async"
  /\ chain = <<skip(1), MapAction("times3")>>
  /\ Len(items) = 3
  /\ Len(Emitted(1)) = 2
  /\ HasDone(1)
  /\ Quiet(1)

----------------------------------------------------------------------------
(* C24 *)

\* a stage that calls no user function for the item it is given: a
\* skipUntil whose one-time switch is off
Silent(k) == chain[k].kind = "skipUntil" /\ ~active[k]

\* number of items the source has handed out up to position j of the log
ItemsReadUpTo(i, j) ==
  Cardinality({h \in 1..j : trace[i][h].ev = "src" /\ trace[i][h].d = False})

\* the traversal recorded from position j of the log on starts at the
\* first stage: the first user function called belongs to the first stage
\* that calls one
StartsAtFirst(i, j) ==
  /\ trace[i][j].ev = "fn"
  /\ \A h \in 1..(trace[i][j].k - 1) : Silent(h)

\* C24: when stage k signals skip for an item, no stage after k is entered
\* for that item and the item is not returned to the consumer; the next
\* source item is read within the same pull and its traversal starts at
\* the first stage of the chain, not at stage k, visiting the stages in
\* attachment order.
C24_SkipRestartsAtFirstStage ==
  \A j \in 1..Len(trace[1]) :
    /\ (IsSkipEvent(trace[1][j]) /\ j < Len(trace[1])) =>
         /\ trace[1][j + 1].ev = "src"
         /\ (trace[1][j + 1].d = False /\ j + 1 < Len(trace[1])) =>
              /\ StartsAtFirst(1, j + 2)
              /\ trace[1][j + 2].k <= trace[1][j].k
              /\ trace[1][j + 2].v = Num(items[ItemsReadUpTo(1, j + 1)])
    /\ (trace[1][j].ev = "fn" /\ j < Len(trace[1]) /\ trace[1][j + 1].ev = "fn")
         => trace[1][j].k < trace[1][j + 1].k
    /\ (trace[1][j].ev = "fn" /\ j > 1 /\ trace[1][j - 1].ev = "src")
         => StartsAtFirst(1, j)

\* C24 witness: a map followed by a filter that rejected the first item:
\* within the same pull the second item was read and went through the map
\* and then the filter, which let it through
C24_Witness ==
  /\ chain = <<MapAction("times3"), FilterAction("isEven")>>
  /\ Len(items) >= 2 /\ items[1] = 1 /\ items[2] = 2
  /\ Len(trace[1]) >= 8
  /\ IsSkipEvent(trace[1][4])
  /\ trace[1][5].ev = "src"
  /\ trace[1][6].ev = "fn" /\ trace[1][6].k = 1 /\ trace[1][6].v = Num(2)
  /\ trace[1][7].ev = "fn" /\ trace[1][7].k = 2
  /\ trace[1][8].ev = "ret" /\ trace[1][8].v = Num(6)

----------------------------------------------------------------------------
(* C25 *)

\* C25: every result returned by pull-next carries a boolean done flag:
\* done is false exactly when the result carries an item that passed the
\* last stage of the chain, and done is true exactly when the source has
\* reported completion.  (Stated as claimed, for every iterator derived
\* from a chain; it holds while the chain has one iterator, and fails for
\* the iterator of C11, whose next() returns a promise.)
C25_DoneFlagBoolean ==
  \A i \in DOMAIN iters :
    \A r \in 1..Len(trace[i]) :
      trace[i][r].ev = "ret" =>
        LET s == LastRead(i, r)
        IN /\ trace[i][r].d \in {True, False}
           /\ trace[i][r].d = True <=> trace[i][s].d = True
           /\ trace[i][r].d = False <=>
                /\ trace[i][s].d = False
                /\ \A h \in s..r : ~IsSkipEvent(trace[i][h])

----------------------------------------------------------------------------
(* C26 *)

\* C26: every promise returned by an asynchronous pull-next eventually
\* settles (fulfils or rejects), provided every promise produced by the
\* source and every value awaited by awaitValue eventually settles and
\* every delay timer fires.  (Stated as claimed; a pull stops being
\* pending when its promise fulfils or rejects.)
C26_AsyncPullSettles ==
  \A i \in {1} : (task[i].st # "idle") ~> (task[i].st = "idle")

----------------------------------------------------------------------------
(* C27 *)

\* position in consumer i's log of the call whose result is at position r
CallBefore(i, r) ==
  CHOOSE c \in 1..r :
    /\ trace[i][c].ev = "call"
    /\ \A h \in (c + 1)..r : trace[i][h].ev # "call"

\* C27: for every chain of map, filter, skip and skipUntil stages whose
\* user functions return, a synchronous pull-next over a source with k
\* remaining items returns after at most k + 1 reads of the source, and
\* each stage is invoked at most once per item read.
C27_SyncPullBounded ==
  iters[1] = "sync" =>
    /\ \A j \in 1..Len(trace[1]) :
         trace[1][j].ev = "call" =>
           \E r \in (j + 1)..Len(trace[1]) :
             /\ trace[1][r].ev = "ret"
             /\ \A h \in (j + 1)..(r - 1) : trace[1][h].ev \in {"src", "fn"}
    /\ \A r \in 1..Len(trace[1]) :
         trace[1][r].ev = "ret" =>
           /\ ReadsOfPull(1, r) >= 1
           /\ ReadsOfPull(1, r)
                <= Len(items) - ItemsReadUpTo(1, CallBefore(1, r)) + 1
    /\ \A a, b \in 1..Len(trace[1]) :
         (/\ a < b
          /\ trace[1][a].ev = "fn" /\ trace[1][b].ev = "fn"
          /\ trace[1][a].k = trace[1][b].k)
           => \E h \in (a + 1)..(b - 1) : trace[1][h].ev = "src"

\* C27 witness: a synchronous pull over three items, all rejected by the
\* filter, that returned the completion after four reads, the predicate
\* called three times
C27_Witness ==
  /\ iters[1] = "sync"
  /\ chain = <<FilterAction("is6")>>
  /\ Len(items) = 3
  /\ Len(Rets(1)) = 1
  /\ Rets(1)[1].d = True
  /\ ReadsOfPull(1, Len(trace[1])) = 4
  /\ Len(FnCalls(1, 1)) = 3

----------------------------------------------------------------------------
(* C28 *)

\* C28: item values are never fed back into the source: the argument a
\* consumer passes to pull-next is forwarded to the source's next for the
\* first read of that pull, and every re-read caused by a skip (from
\* filter, skip or skipUntil) calls the source's next with undefined.
\* (Stated as claimed.)
C28_NoItemFedBack ==
  \A j \in 2..Len(trace[1]) :
    trace[1][j].ev = "src" =>
      IF trace[1][j - 1].ev = "call"
        THEN trace[1][j].v = trace[1][j - 1].v
        ELSE /\ IsSkipEvent(trace[1][j - 1])
             /\ trace[1][j].v = Undefined

====
